---- MODULE Spec2Model ----
(***************************************************************************)
(* A model of the http-body / http-body-util body adapters: the Collect    *)
(* future, the Channel body and its Sender, WithTrailers (alone and        *)
(* applied twice), Fuse, Limited, Throttle and the Data future.  Every     *)
(* adapter has its own specification (SpecCollect, SpecChannel,            *)
(* SpecWithTrailers, SpecChained, SpecFuse, SpecLimited, SpecThrottle,     *)
(* SpecData); the variables of the adapters a specification does not      *)
(* drive stay at "idle".                                                   *)
(*                                                                         *)
(* A wrapped body is a script of poll outcomes, as the Mock body of the    *)
(* Fuse tests: each poll pops the front of the script, an exhausted script *)
(* answers Ready(None).                                                    *)
(***************************************************************************)
EXTENDS Integers, Sequences, FiniteSets, TLC

VARIABLES
    \* ---- Collect (http-body-util/src/combinators/collect.rs)
    collect_body,      \* Collect.body: the script the body still has to play
    collect_out,       \* what the last poll of the future returned
    collect_yielded,   \* history: the frames the body has yielded so far
    collect_script,    \* history: the script the body started with
    collect_kind,      \* which future polls the body: Collect or Buffered
    \* ---- Channel (http-body-util/src/channel.rs)
    buffer,            \* the capacity Channel::new was given
    rx_frame,          \* the frames queued in the bounded frame channel
    rx_error,          \* the content of the single-slot error channel
    tx_frame,          \* TRUE while the Sender's tx_frame handle is alive
    tx_error,          \* TRUE while the Sender's tx_error handle is alive
    sender_pc,         \* where the sender task is
    body_pc,           \* where the body's consumer is
    chan_out,          \* what the last poll_frame of the Channel returned
    send_out,          \* what the last send returned
    send_call,         \* the send in progress, or the last one made
    chan_sent,         \* history: the frames successfully sent
    chan_recv,         \* history: everything poll_frame returned but Pending
    chan_aborted,      \* history: abort's try_send stored the error
    chan_seen,         \* history: the queue and the abort state the last poll started
                       \* from, and which poll since the abort it was (1, 2 for later)
    \* ---- WithTrailers (http-body-util/src/combinators/with_trailers.rs)
    wt_state,          \* WithTrailers.state
    wt_out,            \* what the last poll_frame returned
    wt_eos_seen,       \* history: is_end_stream() has returned true
    wt_after_eos,      \* history: the last poll_frame came after such a true
    wt_hist,           \* history: the frames yielded, by the body and by the adapter
    \* ---- Fuse (http-body-util/src/combinators/fuse.rs)
    fuse_inner,        \* Fuse.inner: Some(body) or None
    poll_count,        \* Mock.poll_count: polls of the inner body
    fuse_out,          \* what the last poll_frame of the Fuse returned
    fuse_hist,         \* history: what the last poll started from
    \* ---- Limited (src/limited.rs)
    remaining,         \* Limited.remaining
    lim_inner,         \* Limited.inner: the script of the wrapped body
    lim_out,           \* what the last poll of the Limited returned
    lim_hint,          \* what the last size_hint of the Limited returned
    lim_hist,          \* history: limit, bytes forwarded, what the last call saw
    \* ---- WithTrailers over WithTrailers (with_trailers.rs, tests::merges_trailers)
    ch_state,          \* the outer WithTrailers.state; its body is the inner adapter
    ch_out,            \* what the last poll_frame of the outer adapter returned
    ch_hist,           \* history: the two trailer sets and the frames yielded
    \* ---- Throttle (http-body-util/src/throttle.rs)
    th_inner,          \* Throttle.inner: the script of the wrapped body
    th_state,          \* Throttle.state: Init, Ready(time) or Waiting(sleep, time)
    cursor,            \* Throttle.cursor, an f64 as [x, e]
    byte_rate,         \* Throttle.byte_rate, an f64 as [bytes, millis, shift, err]
    now,               \* the clock of the timer, in milliseconds
    th_out,            \* what the last poll of the Throttle returned
    th_hist,           \* history: the chunks returned and when, the last call
    \* ---- Data (http-body-util/src/combinators/data.rs)
    data_body,         \* the body the Data future borrows: its script
    data_out,          \* what the last poll of a Data future returned
    data_hist,         \* history: what the body answered on that poll
    \* ---- SizeHint (http-body/src/size_hint.rs)
    sh_hint,           \* a SizeHint value that is built up by calls
    sh_build,          \* overflow checks of the build: "debug" on, "release" off
    sh_out,            \* what the last call returned, or that it panicked
    sh_hist,           \* history: the last call, its argument, the hint before it
    add_args,          \* three SizeHint values a, b and c
    add_build,         \* overflow checks of the build that adds them
    add_sums,          \* a + b, b + a, (a + b) + c and a + (b + c), once computed
    \* ---- BufList (the buffer list of Collected and of aggregate)
    bl_bufs,           \* BufList.bufs: the segments held, each its unread bytes
    bl_out,            \* whether the last call panicked
    bl_hist,           \* history: the last call, the bytes pushed and advanced over
    \* ---- Either (http-body-util/src/either.rs)
    either_value,      \* a value of Either: Left(x) or Right(y)
    either_hist,       \* history: the value at the start, the flips since
    \* ---- several adapters under one specification
    adapter,           \* which of the adapters the run is about
    \* ---- Fuse over a WithTrailers
    fw_inner,          \* Fuse.inner: Some(the WithTrailers) or None
    fw_twin,           \* the same WithTrailers, polled without a Fuse
    fw_hist,           \* history: what the polls of the two returned
    \* ---- Body for Pin<P>, &mut T and Box<T> (src/lib.rs)
    wr_body,           \* the body behind the pointer
    wr_kind,           \* the pointer: "Pin", "RefMut" or "Box"
    wr_out             \* the last call: through the pointer, and on the body

collectVars == <<collect_body, collect_out, collect_yielded, collect_script,
                 collect_kind>>
channelVars == <<buffer, rx_frame, rx_error, tx_frame, tx_error, sender_pc, body_pc,
                 chan_out, send_out, send_call, chan_sent, chan_recv, chan_aborted,
                 chan_seen>>
wtVars == <<wt_state, wt_out, wt_eos_seen, wt_after_eos, wt_hist>>
fuseVars == <<fuse_inner, poll_count, fuse_out, fuse_hist>>
limVars == <<remaining, lim_inner, lim_out, lim_hint, lim_hist>>
chainVars == <<ch_state, ch_out, ch_hist>>
dataVars == <<data_body, data_out, data_hist>>
sizeHintVars == <<sh_hint, sh_build, sh_out, sh_hist>>
addVars == <<add_args, add_build, add_sums>>
bufListVars == <<bl_bufs, bl_out, bl_hist>>
eitherVars == <<either_value, either_hist>>
adapterVars == <<adapter>>
fuseWTVars == <<fw_inner, fw_twin, fw_hist>>
wrapperVars == <<wr_body, wr_kind, wr_out>>
throttleVars == <<th_inner, th_state, cursor, byte_rate, now, th_out, th_hist>>
vars == <<collectVars, channelVars, wtVars, fuseVars, limVars, chainVars, throttleVars, dataVars, sizeHintVars, addVars, bufListVars, eitherVars, adapterVars, fuseWTVars, wrapperVars>>

\* what an action of one adapter leaves alone: the other adapters
notCollect == <<channelVars, wtVars, fuseVars, limVars, chainVars, throttleVars, dataVars, sizeHintVars, addVars, bufListVars, eitherVars, adapterVars, fuseWTVars, wrapperVars>>
notChannel == <<collectVars, wtVars, fuseVars, limVars, chainVars, throttleVars, dataVars, sizeHintVars, addVars, bufListVars, eitherVars, adapterVars, fuseWTVars, wrapperVars>>
notWT == <<collectVars, channelVars, fuseVars, limVars, chainVars, throttleVars, dataVars, sizeHintVars, addVars, bufListVars, eitherVars, adapterVars, fuseWTVars, wrapperVars>>
notFuse == <<collectVars, channelVars, wtVars, limVars, chainVars, throttleVars, dataVars, sizeHintVars, addVars, bufListVars, eitherVars, adapterVars, fuseWTVars, wrapperVars>>
notLimited == <<collectVars, channelVars, wtVars, fuseVars, chainVars, throttleVars, dataVars, sizeHintVars, addVars, bufListVars, eitherVars, adapterVars, fuseWTVars, wrapperVars>>
notChain == <<collectVars, channelVars, wtVars, fuseVars, limVars, throttleVars, dataVars, sizeHintVars, addVars, bufListVars, eitherVars, adapterVars, fuseWTVars, wrapperVars>>
notThrottle == <<collectVars, channelVars, wtVars, fuseVars, limVars, chainVars, dataVars, sizeHintVars, addVars, bufListVars, eitherVars, adapterVars, fuseWTVars, wrapperVars>>
notData == <<collectVars, channelVars, wtVars, fuseVars, limVars, chainVars, throttleVars, sizeHintVars, addVars, bufListVars, eitherVars, adapterVars, fuseWTVars, wrapperVars>>
notSizeHint == <<collectVars, channelVars, wtVars, fuseVars, limVars, chainVars, throttleVars, dataVars, addVars, bufListVars, eitherVars, adapterVars, fuseWTVars, wrapperVars>>
notAdd == <<collectVars, channelVars, wtVars, fuseVars, limVars, chainVars, throttleVars, dataVars, sizeHintVars, bufListVars, eitherVars, adapterVars, fuseWTVars, wrapperVars>>
notBufList == <<collectVars, channelVars, wtVars, fuseVars, limVars, chainVars, throttleVars, dataVars, sizeHintVars, addVars, eitherVars, adapterVars, fuseWTVars, wrapperVars>>
notEither == <<collectVars, channelVars, wtVars, fuseVars, limVars, chainVars, throttleVars, dataVars, sizeHintVars, addVars, bufListVars, adapterVars, fuseWTVars, wrapperVars>>
notAdapter == <<collectVars, channelVars, wtVars, fuseVars, limVars, chainVars, throttleVars, dataVars, sizeHintVars, addVars, bufListVars, eitherVars, fuseWTVars, wrapperVars>>
notFuseWT == <<collectVars, channelVars, wtVars, fuseVars, limVars, chainVars, throttleVars, dataVars, sizeHintVars, addVars, bufListVars, eitherVars, adapterVars, wrapperVars>>
notWrapper == <<collectVars, channelVars, wtVars, fuseVars, limVars, chainVars, throttleVars, dataVars, sizeHintVars, addVars, bufListVars, eitherVars, adapterVars, fuseWTVars>>

-----------------------------------------------------------------------------
(* Bounds of the model *)

\* longest script of a wrapped body
MaxPolls == 3
\* longest data chunk, in bytes
MaxChunk == 2
\* largest limit given to Limited::new
MaxLimit == 3
\* largest bound of an inner size hint
MaxHint == 3
\* longest script of the body a Limited wraps
MaxDataPolls == 2
\* capacity given to Channel::new
MaxBuffer == 2
\* frames the sender task tries to send
MaxSends == 3
\* Pending results of a trailers future before it resolves
MaxFutPending == 1
\* the latest time at which a consumer of a Throttle may still dawdle
MaxClock == 3000
\* the longest script of a body behind a pointer
MaxWrapped == 2
\* the values an Either holds, and the flips of one value
MaxValue == 9
MaxFlips == 5
\* pushes onto one BufList
MaxPushes == 3
\* the largest value of a u64 of the model, in the place of u64::MAX
U64Max == 3

-----------------------------------------------------------------------------
(* Frames, header maps and poll outcomes *)

Min(a, b) == IF a <= b THEN a ELSE b

Names == {"foo", "baz"}

\* HeaderMap::new(): no field has a value
EmptyMap == [n \in Names |-> <<>>]

MapOf(n, v) == [EmptyMap EXCEPT ![n] = <<v>>]

\* the trailer maps bodies and futures hand out
TrailerMaps == {MapOf("foo", "bar"), MapOf("baz", "qux"), MapOf("foo", "qux")}

\* an extend that appends the other map's values to those already there
HeaderMap_extend_appends(current, other) ==
    [n \in Names |-> current[n] \o other[n]]

\* an extend that keeps the values of a name already there
HeaderMap_extend_keeps(current, other) ==
    [n \in Names |-> IF current[n] # <<>> THEN current[n] ELSE other[n]]

\* HeaderMap::extend with the entries of another map: a name the other map
\* holds gets the other map's values (the occupied entry is overwritten by the
\* first value and the rest are appended to it), the other names are kept
HeaderMap_extend(current, other) ==
    [n \in Names |-> IF other[n] # <<>> THEN other[n] ELSE current[n]]

\* the data chunks of length at most n: runs of zero bytes
Chunks(n) == {[i \in 1..k |-> 0] : k \in 0..n}

Rec(k, d, t, e) == [kind |-> k, data |-> d, trailers |-> t, err |-> e]

Pending == Rec("Pending", <<>>, EmptyMap, "")
ReadyNone == Rec("None", <<>>, EmptyMap, "")
\* Frame::data
DataFrame(d) == Rec("Data", d, EmptyMap, "")
\* Frame::trailers
TrailersFrame(t) == Rec("Trailers", <<>>, t, "")
ReadyErr(e) == Rec("Err", <<>>, EmptyMap, e)

\* Frame::is_data, Frame::is_trailers
is_data(f) == f.kind = "Data"
is_trailers(f) == f.kind = "Trailers"
IsFrame(f) == is_data(f) \/ is_trailers(f)

\* what a poll of a body can return
FrameOutcomes ==
    {Pending, ReadyNone, ReadyErr("oh no")}
        \cup {DataFrame(d) : d \in Chunks(MaxChunk)}
        \cup {TrailersFrame(MapOf("foo", "bar"))}

RECURSIVE SeqsUpTo(_, _)
SeqsUpTo(S, n) ==
    IF n = 0 THEN {<<>>}
    ELSE LET shorter == SeqsUpTo(S, n - 1)
         IN  shorter \cup {Append(s, x) : s \in {t \in shorter : Len(t) = n - 1}, x \in S}

\* Mock::poll_frame: pop the front of the script, Ready(None) once it is empty
Mock_poll_frame(polls) ==
    IF polls = <<>> THEN [out |-> ReadyNone, polls |-> <<>>]
    ELSE [out |-> Head(polls), polls |-> Tail(polls)]

\* Mock::is_end_stream
Mock_is_end_stream(polls) == polls = <<>>

-----------------------------------------------------------------------------
(* Collected and the Collect future *)

\* Collected::default
Collected_default == [bufs |-> <<>>, trailers |-> [some |-> FALSE, map |-> EmptyMap]]

\* BufList::push: append the segment at the back, unless it is exhausted
BufList_push(bufs, data) == IF Len(data) = 0 THEN bufs ELSE Append(bufs, data)

RECURSIVE Concat(_)
Concat(bufs) == IF bufs = <<>> THEN <<>> ELSE Head(bufs) \o Concat(Tail(bufs))

\* Collected::to_bytes: copy_to_bytes(remaining()) of the buffer list
to_bytes(c) == Concat(c.bufs)

\* a push_frame that puts a data frame in front of those already there
push_frame_front(c, frame) ==
    IF is_data(frame) THEN [c EXCEPT !.bufs = <<frame.data>> \o c.bufs]
    ELSE IF is_trailers(frame) THEN
        IF c.trailers.some
        THEN [c EXCEPT !.trailers.map = HeaderMap_extend(c.trailers.map, frame.trailers)]
        ELSE [c EXCEPT !.trailers = [some |-> TRUE, map |-> frame.trailers]]
    ELSE c

\* Collected::push_frame
push_frame(c, frame) ==
    IF is_data(frame) THEN [c EXCEPT !.bufs = BufList_push(c.bufs, frame.data)]
    ELSE IF is_trailers(frame) THEN
        IF c.trailers.some
        THEN [c EXCEPT !.trailers.map = HeaderMap_extend(c.trailers.map, frame.trailers)]
        ELSE [c EXCEPT !.trailers = [some |-> TRUE, map |-> frame.trailers]]
    ELSE c

\* a loop that drops an error of the body and goes on polling it
RECURSIVE CollectLoop_past_errors(_, _, _)
CollectLoop_past_errors(polls, collected, seen) ==
    LET r == Mock_poll_frame(polls) IN
    IF r.out.kind = "Pending" THEN
        [res |-> "Pending", collected |-> Collected_default, err |-> "",
         polls |-> r.polls, seen |-> seen]
    ELSE IF r.out.kind = "None" THEN
        [res |-> "Ok", collected |-> collected, err |-> "",
         polls |-> r.polls, seen |-> seen]
    ELSE IF r.out.kind = "Err" THEN
        CollectLoop_past_errors(r.polls, collected, seen)
    ELSE CollectLoop_past_errors(r.polls, push_frame(collected, r.out),
                                 Append(seen, r.out))

\* the loop of Collect::poll from a given aggregate: poll the body until it is
\* Pending, ends or fails
RECURSIVE CollectLoop(_, _, _)
CollectLoop(polls, collected, seen) ==
    LET r == Mock_poll_frame(polls) IN
    IF r.out.kind = "Pending" THEN
        [res |-> "Pending", collected |-> Collected_default, err |-> "",
         polls |-> r.polls, seen |-> seen]
    ELSE IF r.out.kind = "None" THEN
        [res |-> "Ok", collected |-> collected, err |-> "",
         polls |-> r.polls, seen |-> seen]
    ELSE IF r.out.kind = "Err" THEN
        [res |-> "Err", collected |-> Collected_default, err |-> r.out.err,
         polls |-> r.polls, seen |-> seen]
    ELSE CollectLoop(r.polls, push_frame(collected, r.out), Append(seen, r.out))

\* Collect::poll: the aggregate is a local of the call, made afresh by every poll
Collect_poll(polls) == CollectLoop(polls, Collected_default, <<>>)

\* Buffered::poll: the same loop over a local `buffered`
Buffered_poll(polls) == CollectLoop(polls, Collected_default, <<>>)

CollectIdle ==
    /\ collect_body = "idle"
    /\ collect_out = "idle"
    /\ collect_yielded = "idle"
    /\ collect_script = "idle"
    /\ collect_kind = "idle"

\* what the body of a Collect can return: as any body, and a chunk of another
\* byte, by which the order of the chunks shows in the aggregate, another
\* error, and trailers frames of another field and of another value of the
\* same field
CollectOutcomes ==
    FrameOutcomes
        \cup {DataFrame(<<1>>), ReadyErr("again")}
        \cup {TrailersFrame(t) : t \in TrailerMaps}

\* BodyExt::collect on a body that will play any script
CollectInit ==
    /\ collect_body \in SeqsUpTo(CollectOutcomes, MaxPolls)
    /\ collect_script = collect_body
    /\ collect_out = [res |-> "New", collected |-> Collected_default, err |-> ""]
    /\ collect_yielded = <<>>
    /\ collect_kind \in {"Collect", "Buffered"}

\* one poll of the Collect future, until it has resolved
CollectPoll ==
    /\ collect_kind = "Collect"
    /\ collect_out.res \in {"New", "Pending"}
    /\ LET r == Collect_poll(collect_body) IN
        /\ collect_body' = r.polls
        /\ collect_out' = [res |-> r.res, collected |-> r.collected, err |-> r.err]
        /\ collect_yielded' = collect_yielded \o r.seen
    /\ UNCHANGED <<collect_script, collect_kind>>
    /\ UNCHANGED notCollect

\* one poll of the Buffered future, until it has resolved
BufferedPoll ==
    /\ collect_kind = "Buffered"
    /\ collect_out.res \in {"New", "Pending"}
    /\ LET r == Buffered_poll(collect_body) IN
        /\ collect_body' = r.polls
        /\ collect_out' = [res |-> r.res, collected |-> r.collected, err |-> r.err]
        /\ collect_yielded' = collect_yielded \o r.seen
    /\ UNCHANGED <<collect_script, collect_kind>>
    /\ UNCHANGED notCollect

-----------------------------------------------------------------------------
(* Channel and Sender.  The two halves run in different tasks: a step of    *)
(* one half is one operation on one of the two tokio channels, and the      *)
(* steps of the two halves interleave.                                      *)

\* the frames a sender sends
SendFrames == {DataFrame(d) : d \in Chunks(MaxChunk) \ {<<>>}}
                  \cup {TrailersFrame(MapOf("foo", "bar"))}

AbortError == "aborted"

\* a poll_frame that looks at the error channel before the queued frames
Channel_poll_rx_frame_error_first(frames, errors, open) ==
    IF errors = <<>> /\ frames # <<>>
    THEN [ret |-> TRUE, out |-> Head(frames), frames |-> Tail(frames)]
    ELSE IF errors = <<>> /\ ~open THEN [ret |-> TRUE, out |-> ReadyNone, frames |-> frames]
    ELSE [ret |-> FALSE, out |-> Pending, frames |-> frames]

\* a poll_frame that hands out the newest queued frame
Channel_poll_rx_frame_newest(frames, errors, open) ==
    IF frames # <<>>
    THEN [ret |-> TRUE, out |-> frames[Len(frames)],
          frames |-> SubSeq(frames, 1, Len(frames) - 1)]
    ELSE IF ~open THEN [ret |-> TRUE, out |-> ReadyNone, frames |-> frames]
    ELSE [ret |-> FALSE, out |-> Pending, frames |-> frames]

\* Channel::poll_frame, first match: rx_frame.poll_recv.  A queued frame is
\* returned; so is the None of a closed and empty frame channel; only an
\* open and empty one falls through to the error channel
Channel_poll_rx_frame(frames, errors, open) ==
    IF frames # <<>> THEN [ret |-> TRUE, out |-> Head(frames), frames |-> Tail(frames)]
    ELSE IF ~open THEN [ret |-> TRUE, out |-> ReadyNone, frames |-> frames]
    ELSE [ret |-> FALSE, out |-> Pending, frames |-> frames]

\* Channel::poll_frame, second match and the final Pending: rx_error.poll_recv
Channel_poll_rx_error(errors, open) ==
    IF errors # <<>> THEN [out |-> ReadyErr(Head(errors)), errors |-> Tail(errors)]
    ELSE IF ~open THEN [out |-> ReadyNone, errors |-> errors]
    ELSE [out |-> Pending, errors |-> errors]

\* a try_send on an error channel that never has room
Sender_abort_try_send_no_room(errors, receiver_alive) ==
    IF ~receiver_alive THEN "Closed" ELSE "Full"

\* Sender::abort, the try_send on the error channel of capacity 1
Sender_abort_try_send(errors, receiver_alive) ==
    IF ~receiver_alive THEN "Closed"
    ELSE IF Len(errors) >= 1 THEN "Full"
    ELSE "Ok"

ChannelIdle ==
    /\ buffer = "idle" /\ rx_frame = "idle" /\ rx_error = "idle"
    /\ tx_frame = "idle" /\ tx_error = "idle" /\ sender_pc = "idle"
    /\ body_pc = "idle" /\ chan_out = "idle" /\ send_out = "idle"
    /\ chan_sent = "idle" /\ chan_recv = "idle" /\ chan_aborted = "idle"
    /\ chan_seen = "idle" /\ send_call = "idle"

\* Channel::new
ChannelInit ==
    /\ buffer \in 1..MaxBuffer
    /\ rx_frame = <<>> /\ rx_error = <<>>
    /\ tx_frame = TRUE /\ tx_error = TRUE
    /\ sender_pc = "ready" /\ body_pc = "ready"
    /\ chan_out = Pending /\ send_out = "none"
    /\ send_call = [active |-> FALSE, frame |-> Pending, was_full |-> FALSE,
                    recvd |-> 0, after_drop |-> FALSE]
    /\ chan_sent = <<>> /\ chan_recv = <<>> /\ chan_aborted = FALSE
    /\ chan_seen = [polled |-> FALSE, frames |-> <<>>, aborted |-> FALSE, nth |-> 0]

\* the frames the body has been handed so far
Received == SelectSeq(chan_recv, IsFrame)

\* a send that queues its frame whether or not the body is still there
Sender_send_ignores_drop(frames, cap, receiver_alive) ==
    IF Len(frames) < cap THEN "Ok" ELSE "Pending"

\* a send that never waits for a permit
Sender_send_unbounded(frames, cap, receiver_alive) ==
    IF ~receiver_alive THEN "SendError" ELSE "Ok"

\* Sender::send, that is tx_frame.send(frame).await: an error once the
\* receiver is gone, otherwise the frame is queued as soon as one of the
\* `buffer` permits is free, and the call is suspended until then
Sender_send(frames, cap, receiver_alive) ==
    IF ~receiver_alive THEN "SendError"
    ELSE IF Len(frames) < cap THEN "Ok"
    ELSE "Pending"

\* Sender::send while the body is alive and the queue has room
SenderSend ==
    /\ sender_pc = "ready"
    /\ Len(chan_sent) < MaxSends
    /\ Sender_send(rx_frame, buffer, body_pc # "dropped") = "Ok"
    /\ \E f \in SendFrames :
        /\ rx_frame' = Append(rx_frame, f)
        /\ chan_sent' = Append(chan_sent, f)
        /\ send_call' = [active |-> FALSE, frame |-> f, was_full |-> FALSE,
                         recvd |-> Len(Received), after_drop |-> FALSE]
    /\ send_out' = "Ok"
    /\ UNCHANGED <<buffer, rx_error, tx_frame, tx_error, sender_pc, body_pc,
                   chan_out, chan_recv, chan_aborted, chan_seen>>
    /\ UNCHANGED notChannel

\* Sender::send while the queue is full: the call is suspended
SenderSendSuspend ==
    /\ sender_pc = "ready"
    /\ Len(chan_sent) < MaxSends
    /\ Sender_send(rx_frame, buffer, body_pc # "dropped") = "Pending"
    /\ \E f \in SendFrames :
        send_call' = [active |-> TRUE, frame |-> f, was_full |-> TRUE,
                      recvd |-> Len(Received), after_drop |-> FALSE]
    /\ sender_pc' = "sending"
    /\ UNCHANGED <<buffer, rx_frame, rx_error, tx_frame, tx_error, body_pc, chan_out,
                   send_out, chan_sent, chan_recv, chan_aborted, chan_seen>>
    /\ UNCHANGED notChannel

\* a suspended send is woken: it queues its frame, or fails when the body is
\* gone
SenderSendResume ==
    /\ sender_pc = "sending"
    /\ LET r == Sender_send(rx_frame, buffer, body_pc # "dropped") IN
        /\ r # "Pending"
        /\ send_out' = r
        /\ rx_frame' = IF r = "Ok" THEN Append(rx_frame, send_call.frame) ELSE rx_frame
        /\ chan_sent' = IF r = "Ok" THEN Append(chan_sent, send_call.frame) ELSE chan_sent
    /\ send_call' = [send_call EXCEPT !.active = FALSE,
                                      !.after_drop = (body_pc = "dropped")]
    /\ sender_pc' = "ready"
    /\ UNCHANGED <<buffer, rx_error, tx_frame, tx_error, body_pc, chan_out,
                   chan_recv, chan_aborted, chan_seen>>
    /\ UNCHANGED notChannel

\* Sender::send after the body was dropped: Err(SendError)
SenderSendClosed ==
    /\ sender_pc = "ready"
    /\ Sender_send(rx_frame, buffer, body_pc # "dropped") = "SendError"
    /\ send_out' = "SendError"
    /\ \E f \in SendFrames :
        send_call' = [active |-> FALSE, frame |-> f, was_full |-> FALSE,
                      recvd |-> Len(Received), after_drop |-> TRUE]
    /\ UNCHANGED <<buffer, rx_frame, rx_error, tx_frame, tx_error, sender_pc, body_pc,
                   chan_out, chan_sent, chan_recv, chan_aborted, chan_seen>>
    /\ UNCHANGED notChannel

\* Sender::abort up to the end of its match: the try_send of the error
SenderAbort ==
    /\ sender_pc = "ready"
    /\ LET r == Sender_abort_try_send(rx_error, body_pc # "dropped") IN
        /\ rx_error' = IF r = "Ok" THEN Append(rx_error, AbortError) ELSE rx_error
        /\ chan_aborted' = (r = "Ok")
        /\ sender_pc' = IF r = "Full" THEN "panicked" ELSE "dropping"
    /\ UNCHANGED <<buffer, rx_frame, tx_frame, tx_error, body_pc, chan_out, send_out, send_call,
                   chan_sent, chan_recv, chan_seen>>
    /\ UNCHANGED notChannel

\* the Sender goes out of scope (at the end of abort, or unused): its fields
\* are dropped in declaration order, tx_frame first
SenderDropTxFrame ==
    /\ sender_pc \in {"ready", "dropping"}
    /\ tx_frame' = FALSE
    /\ sender_pc' = "tx_frame_dropped"
    /\ UNCHANGED <<buffer, rx_frame, rx_error, tx_error, body_pc, chan_out, send_out, send_call,
                   chan_sent, chan_recv, chan_aborted, chan_seen>>
    /\ UNCHANGED notChannel

SenderDropTxError ==
    /\ sender_pc = "tx_frame_dropped"
    /\ tx_error' = FALSE
    /\ sender_pc' = "dropped"
    /\ UNCHANGED <<buffer, rx_frame, rx_error, tx_frame, body_pc, chan_out, send_out, send_call,
                   chan_sent, chan_recv, chan_aborted, chan_seen>>
    /\ UNCHANGED notChannel

\* Channel::poll_frame, from its start to the end of the first match
ChannelPollRxFrame ==
    /\ body_pc = "ready"
    /\ LET r == Channel_poll_rx_frame(rx_frame, rx_error, tx_frame) IN
        /\ rx_frame' = r.frames
        /\ chan_out' = r.out
        /\ body_pc' = IF r.ret THEN "ready" ELSE "poll_rx_error"
        /\ chan_recv' = IF IsFrame(r.out) THEN Append(chan_recv, r.out) ELSE chan_recv
    /\ chan_seen' = [polled |-> TRUE, frames |-> rx_frame, aborted |-> chan_aborted,
                     nth |-> IF chan_aborted THEN Min(chan_seen.nth + 1, 2) ELSE 0]
    /\ UNCHANGED <<buffer, rx_error, tx_frame, tx_error, sender_pc, send_out, send_call,
                   chan_sent, chan_aborted>>
    /\ UNCHANGED notChannel

\* Channel::poll_frame, from the second match to its end
ChannelPollRxError ==
    /\ body_pc = "poll_rx_error"
    /\ LET r == Channel_poll_rx_error(rx_error, tx_error) IN
        /\ rx_error' = r.errors
        /\ chan_out' = r.out
        /\ chan_recv' = IF r.out.kind = "Err" THEN Append(chan_recv, r.out) ELSE chan_recv
    /\ body_pc' = "ready"
    /\ UNCHANGED <<buffer, rx_frame, tx_frame, tx_error, sender_pc, send_out, send_call,
                   chan_sent, chan_aborted, chan_seen>>
    /\ UNCHANGED notChannel

\* the Channel body is dropped between two polls, and its receivers with it
ChannelDrop ==
    /\ body_pc = "ready"
    /\ body_pc' = "dropped"
    /\ rx_frame' = <<>> /\ rx_error' = <<>>
    /\ UNCHANGED <<buffer, tx_frame, tx_error, sender_pc, chan_out, send_out, send_call,
                   chan_sent, chan_recv, chan_aborted, chan_seen>>
    /\ UNCHANGED notChannel

-----------------------------------------------------------------------------
(* WithTrailers *)

None == [some |-> FALSE, map |-> EmptyMap]
Some(m) == [some |-> TRUE, map |-> m]

\* the values a trailers future resolves to: None, Some(Ok(map)), Some(Err(e))
FutResults == {ReadyNone, ReadyErr("oh no")} \cup {TrailersFrame(t) : t \in TrailerMaps}

\* a trailers future: Pending a number of times, then its result
Futures == [pendings : 0..MaxFutPending, result : FutResults, done : {FALSE},
            repolled : {FALSE}]

\* Future::poll of the trailers future
Fut_poll(fut) ==
    IF fut.pendings > 0
    THEN [out |-> Pending, fut |-> [fut EXCEPT !.pendings = @ - 1]]
    ELSE [out |-> fut.result, fut |-> [fut EXCEPT !.done = TRUE, !.repolled = fut.done]]

NoFuture == [pendings |-> 0, result |-> ReadyNone, done |-> TRUE, repolled |-> FALSE]

\* Option::take: the value is moved out and None is left in its place
Option_take_keeps(o) == o

Option_take(o) == None

\* the three states of WithTrailers
PollBodyState(body, fut) == [tag |-> "PollBody", body |-> body, fut |-> fut, trailers |-> None]
PollTrailersState(fut, prev) ==
    [tag |-> "PollTrailers", body |-> <<>>, fut |-> fut, trailers |-> prev]
TrailersState(t) == [tag |-> "Trailers", body |-> <<>>, fut |-> NoFuture, trailers |-> t]

\* WithTrailers::new
WithTrailers_new(body, fut) == PollBodyState(body, fut)

\* WithTrailers::poll_frame: the loop over the states
RECURSIVE WithTrailers_poll_frame(_)
WithTrailers_poll_frame(state) ==
    IF state.tag = "PollBody" THEN
        LET r == Mock_poll_frame(state.body) IN
        IF r.out.kind \in {"Pending", "Err", "Data"}
        THEN [out |-> r.out, state |-> [state EXCEPT !.body = r.polls]]
        ELSE IF r.out.kind = "Trailers"
        THEN WithTrailers_poll_frame(PollTrailersState(state.fut, Some(r.out.trailers)))
        ELSE WithTrailers_poll_frame(PollTrailersState(state.fut, None))
    ELSE IF state.tag = "PollTrailers" THEN
        LET f == Fut_poll(state.fut) IN
        IF f.out.kind \in {"Pending", "Err"}
        THEN [out |-> f.out, state |-> [state EXCEPT !.fut = f.fut]]
        ELSE IF f.out.kind = "None" /\ ~state.trailers.some
        THEN [out |-> ReadyNone, state |-> PollTrailersState(f.fut, None)]
        ELSE IF f.out.kind = "None"
        THEN WithTrailers_poll_frame(TrailersState(state.trailers))
        ELSE IF ~state.trailers.some
        THEN WithTrailers_poll_frame(TrailersState(Some(f.out.trailers)))
        ELSE WithTrailers_poll_frame(
                TrailersState(Some(HeaderMap_extend(state.trailers.map, f.out.trailers))))
    ELSE
        IF state.trailers.some
        THEN [out |-> TrailersFrame(state.trailers.map),
              state |-> TrailersState(Option_take(state.trailers))]
        ELSE [out |-> ReadyNone, state |-> state]

\* WithTrailers::is_end_stream
WithTrailers_is_end_stream(state) ==
    IF state.tag = "PollBody" THEN Mock_is_end_stream(state.body) ELSE TRUE

\* a trailer map of two fields
BothFields == [EmptyMap EXCEPT !["foo"] = <<"bar">>, !["baz"] = <<"qux">>]

\* what the body under a WithTrailers can return: as any body, and a trailers
\* frame of two fields
WTOutcomes == FrameOutcomes \cup {TrailersFrame(BothFields)}

\* history of a call: the body, or the future, was not polled in it
NotPolled == [polled |-> FALSE, out |-> Pending]

WTIdle ==
    /\ wt_state = "idle" /\ wt_out = "idle"
    /\ wt_eos_seen = "idle" /\ wt_after_eos = "idle"
    /\ wt_hist = "idle"

\* BodyExt::with_trailers on any scripted body with any trailers future
WTInit ==
    /\ \E body \in SeqsUpTo(WTOutcomes, MaxPolls), fut \in Futures :
        /\ wt_state = WithTrailers_new(body, fut)
        /\ wt_hist = [frames |-> <<>>, body_data |-> <<>>, after_trailers |-> FALSE,
                      body_done |-> FALSE, p |-> None, t |-> fut.result,
                      last_body |-> NotPolled, last_fut |-> NotPolled,
                      after_none |-> FALSE]
    /\ wt_out = Pending
    /\ wt_eos_seen = FALSE
    /\ wt_after_eos = FALSE

\* a call of WithTrailers::poll_frame
WTPollFrame ==
    /\ LET r == WithTrailers_poll_frame(wt_state) IN
        /\ wt_state' = r.state
        /\ wt_out' = r.out
    /\ wt_after_eos' = wt_eos_seen
    /\ LET polled == wt_state.tag = "PollBody"
           b == Mock_poll_frame(wt_state.body).out
           fut_polled == \/ wt_state.tag = "PollTrailers"
                         \/ polled /\ b.kind \in {"Trailers", "None"}
           f == Fut_poll(wt_state.fut).out
       IN  wt_hist' = [wt_hist EXCEPT
                !.last_body = IF polled THEN [polled |-> TRUE, out |-> b] ELSE NotPolled,
                !.last_fut = IF fut_polled THEN [polled |-> TRUE, out |-> f]
                             ELSE NotPolled,
                !.after_none = @ \/ wt_out = ReadyNone,
                !.frames = IF IsFrame(wt_out') THEN Append(@, wt_out') ELSE @,
                !.body_data = IF polled /\ is_data(b) THEN Append(@, b) ELSE @,
                !.after_trailers = \E i \in 1..Len(wt_hist.frames) :
                                        is_trailers(wt_hist.frames[i]),
                !.body_done = @ \/ (polled /\ b.kind \in {"Trailers", "None"}),
                !.p = IF polled /\ is_trailers(b) THEN Some(b.trailers) ELSE @]
    /\ UNCHANGED wt_eos_seen
    /\ UNCHANGED notWT

\* a call of WithTrailers::is_end_stream
WTIsEndStream ==
    /\ wt_eos_seen' = (wt_eos_seen \/ WithTrailers_is_end_stream(wt_state))
    /\ UNCHANGED <<wt_state, wt_out, wt_after_eos, wt_hist>>
    /\ UNCHANGED notWT

-----------------------------------------------------------------------------
(* body.with_trailers(a).with_trailers(b): a WithTrailers whose body is a     *)
(* WithTrailers                                                               *)

\* what a body without trailers of its own can return
NativeOutcomes == {f \in FrameOutcomes : ~is_trailers(f)}

\* the futures that resolve to Some(Ok(map))
TrailerFutures == {f \in Futures : is_trailers(f.result)}

\* an outer adapter that forwards the trailers frame of its body as it does a
\* data frame
Chained_poll_frame_forwards(outer) ==
    IF outer.tag = "PollBody" THEN
        LET r == WithTrailers_poll_frame(outer.body) IN
        IF r.out.kind \in {"Pending", "Err", "Data", "Trailers"}
        THEN [out |-> r.out, state |-> [outer EXCEPT !.body = r.state]]
        ELSE WithTrailers_poll_frame(PollTrailersState(outer.fut, None))
    ELSE WithTrailers_poll_frame(outer)

\* WithTrailers::poll_frame of the outer adapter: in PollBody the body it polls
\* is the inner adapter; the other two states hold no body
Chained_poll_frame(outer) ==
    IF outer.tag = "PollBody" THEN
        LET r == WithTrailers_poll_frame(outer.body) IN
        IF r.out.kind \in {"Pending", "Err", "Data"}
        THEN [out |-> r.out, state |-> [outer EXCEPT !.body = r.state]]
        ELSE IF r.out.kind = "Trailers"
        THEN WithTrailers_poll_frame(PollTrailersState(outer.fut, Some(r.out.trailers)))
        ELSE WithTrailers_poll_frame(PollTrailersState(outer.fut, None))
    ELSE WithTrailers_poll_frame(outer)

ChainIdle == ch_state = "idle" /\ ch_out = "idle" /\ ch_hist = "idle"

\* body.with_trailers(a).with_trailers(b), the body having no trailers
ChainInit ==
    /\ \E body \in SeqsUpTo(NativeOutcomes, MaxPolls), a \in TrailerFutures,
          b \in TrailerFutures :
        /\ ch_state = WithTrailers_new(WithTrailers_new(body, a), b)
        /\ ch_hist = [a |-> a.result.trailers, b |-> b.result.trailers,
                      frames |-> <<>>, after_trailers |-> FALSE]
    /\ ch_out = Pending

\* a call of poll_frame on the outer adapter
ChainPollFrame ==
    /\ LET r == Chained_poll_frame(ch_state) IN
        /\ ch_state' = r.state
        /\ ch_out' = r.out
        /\ ch_hist' = [ch_hist EXCEPT
                !.frames = IF IsFrame(r.out) THEN Append(@, r.out) ELSE @,
                !.after_trailers = \E i \in 1..Len(ch_hist.frames) :
                                        is_trailers(ch_hist.frames[i])]
    /\ UNCHANGED notChain

-----------------------------------------------------------------------------
(* Fuse over a Mock body *)

\* u8::MAX, where Mock's saturating poll counter stops
U8Max == 255

saturating_add(n) == IF n >= U8Max THEN U8Max ELSE n + 1

NoBody == [some |-> FALSE, polls |-> <<>>]
SomeBody(polls) == [some |-> TRUE, polls |-> polls]

\* a Fuse::new that keeps every body
Fuse_new_keeps(body) == SomeBody(body)

\* Fuse::new
Fuse_new(body) == IF Mock_is_end_stream(body) THEN NoBody ELSE SomeBody(body)

\* a flag that lets the Fuse go on after an error
Fuse_eos_on_after_error(out, polls) ==
    IF IsFrame(out) THEN Mock_is_end_stream(polls)
    ELSE IF out.kind = "None" THEN TRUE
    ELSE FALSE

\* a flag that does not ask the inner body after a frame
Fuse_eos_unasked(out, polls) ==
    IF IsFrame(out) THEN FALSE
    ELSE IF out.kind \in {"Err", "None"} THEN TRUE
    ELSE FALSE

\* the end-of-stream flag Fuse::poll_frame pairs with the inner body's answer
Fuse_eos(out, polls) ==
    IF IsFrame(out) THEN Mock_is_end_stream(polls)
    ELSE IF out.kind \in {"Err", "None"} THEN TRUE
    ELSE FALSE

\* a poll_frame that ends the stream where the inner body fails
Fuse_poll_frame_ends_on_error(inner, count) ==
    IF inner.some THEN
        LET r == Mock_poll_frame(inner.polls) IN
        [out |-> IF r.out.kind = "Err" THEN ReadyNone ELSE r.out,
         inner |-> IF Fuse_eos(r.out, r.polls) THEN NoBody ELSE SomeBody(r.polls),
         count |-> saturating_add(count),
         left |-> r.polls]
    ELSE [out |-> ReadyNone, inner |-> inner, count |-> count, left |-> <<>>]

\* Fuse::poll_frame
Fuse_poll_frame(inner, count) ==
    IF inner.some THEN
        LET r == Mock_poll_frame(inner.polls) IN
        [out |-> r.out,
         inner |-> IF Fuse_eos(r.out, r.polls) THEN NoBody ELSE SomeBody(r.polls),
         count |-> saturating_add(count),
         left |-> r.polls]
    ELSE [out |-> ReadyNone, inner |-> inner, count |-> count, left |-> <<>>]

\* Fuse::is_end_stream
Fuse_is_end_stream(inner) == ~inner.some

FuseIdle ==
    /\ fuse_inner = "idle" /\ poll_count = "idle"
    /\ fuse_out = "idle" /\ fuse_hist = "idle"

\* Fuse::new over a Mock with any script and a poll count of zero
FuseInit ==
    /\ \E body \in SeqsUpTo(FrameOutcomes, MaxPolls) :
        /\ fuse_inner = Fuse_new(body)
        /\ fuse_hist = [new_eos |-> Mock_is_end_stream(body), polled |-> FALSE,
                        term |-> FALSE, term_by |-> "", after_term |-> FALSE,
                        count_before |-> 0, held |-> FALSE, inner_out |-> Pending,
                        left |-> body, dropped |-> FALSE]
    /\ poll_count = 0
    /\ fuse_out = Pending

\* a call of Fuse::poll_frame
FusePollFrame ==
    /\ ~fuse_hist.dropped
    /\ LET r == Fuse_poll_frame(fuse_inner, poll_count) IN
        /\ fuse_inner' = r.inner
        /\ poll_count' = r.count
        /\ fuse_out' = r.out
        /\ fuse_hist' = [fuse_hist EXCEPT
                !.polled = TRUE,
                !.term = @ \/ r.out.kind \in {"None", "Err"},
                !.term_by = IF ~fuse_hist.term /\ r.out.kind \in {"None", "Err"}
                            THEN r.out.kind ELSE @,
                !.after_term = fuse_hist.term,
                !.count_before = poll_count,
                !.held = fuse_inner.some,
                !.inner_out = IF fuse_inner.some
                              THEN Mock_poll_frame(fuse_inner.polls).out ELSE Pending,
                !.left = IF fuse_inner.some THEN r.left ELSE @]
    /\ UNCHANGED notFuse

\* drop(fused): the inner body, if still held, is dropped unpolled
FuseDrop ==
    /\ ~fuse_hist.dropped
    /\ fuse_inner' = NoBody
    /\ fuse_hist' = [fuse_hist EXCEPT !.dropped = TRUE]
    /\ UNCHANGED <<poll_count, fuse_out>>
    /\ UNCHANGED notFuse

-----------------------------------------------------------------------------
(* SizeHint and Limited *)

\* a SizeHint; panicked records a failed assertion of a setter
Hint(lower, upper) == [lower |-> lower, upper |-> upper, panicked |-> FALSE]
NoUpper == [some |-> FALSE, v |-> 0]
Upper(v) == [some |-> TRUE, v |-> v]

\* the hints of an inner body
Hints == {Hint(l, NoUpper) : l \in 0..MaxHint}
            \cup {Hint(l, Upper(u)) : l \in 0..MaxHint, u \in 0..MaxHint}

WellFormed(hint) == hint.upper.some => hint.lower <= hint.upper.v

\* SizeHint::set_exact
set_exact(hint, value) == [hint EXCEPT !.lower = value, !.upper = Upper(value)]

\* SizeHint::set_upper
set_upper(hint, value) ==
    IF value >= hint.lower THEN [hint EXCEPT !.upper = Upper(value)]
    ELSE [hint EXCEPT !.panicked = TRUE]

\* a size_hint that sets the upper bound to the budget whatever the inner one
Limited_size_hint_no_min(n, hint) ==
    IF hint.lower >= n THEN set_exact(hint, n)
    ELSE set_upper(hint, n)

\* a size_hint without the branch for an inner lower bound at or above the
\* budget
Limited_size_hint_no_exact(n, hint) ==
    IF hint.upper.some THEN set_upper(hint, Min(n, hint.upper.v))
    ELSE set_upper(hint, n)

\* Limited::size_hint (the remaining budget always fits a u64)
Limited_size_hint(n, hint) ==
    IF hint.lower >= n THEN set_exact(hint, n)
    ELSE IF hint.upper.some THEN set_upper(hint, Min(n, hint.upper.v))
    ELSE set_upper(hint, n)

LengthLimitExceeded == Rec("Exceeded", <<>>, EmptyMap, "")
\* LengthLimitError::Other
Other(e) == Rec("Other", <<>>, EmptyMap, e)

\* a poll_data that also refuses the frame that fits the budget exactly
Limited_poll_data_ge(n, inner) ==
    IF inner.kind = "Pending" THEN [out |-> Pending, remaining |-> n]
    ELSE IF inner.kind = "None" THEN [out |-> ReadyNone, remaining |-> n]
    ELSE IF inner.kind = "Data" THEN
        IF Len(inner.data) >= n
        THEN [out |-> LengthLimitExceeded, remaining |-> 0]
        ELSE [out |-> inner, remaining |-> n - Len(inner.data)]
    ELSE [out |-> Other(inner.err), remaining |-> n]

\* a poll_data that forwards without charging the budget
Limited_poll_data_no_charge(n, inner) ==
    IF inner.kind = "Pending" THEN [out |-> Pending, remaining |-> n]
    ELSE IF inner.kind = "None" THEN [out |-> ReadyNone, remaining |-> n]
    ELSE IF inner.kind = "Data" THEN
        IF Len(inner.data) > n
        THEN [out |-> LengthLimitExceeded, remaining |-> 0]
        ELSE [out |-> inner, remaining |-> n]
    ELSE [out |-> Other(inner.err), remaining |-> n]

\* a poll_data that leaves the budget as it is when it refuses a frame
Limited_poll_data_keeps_budget(n, inner) ==
    IF inner.kind = "Pending" THEN [out |-> Pending, remaining |-> n]
    ELSE IF inner.kind = "None" THEN [out |-> ReadyNone, remaining |-> n]
    ELSE IF inner.kind = "Data" THEN
        IF Len(inner.data) > n
        THEN [out |-> LengthLimitExceeded, remaining |-> n]
        ELSE [out |-> inner, remaining |-> n - Len(inner.data)]
    ELSE [out |-> Other(inner.err), remaining |-> n]

\* a poll_data that charges a frame larger than the budget as the difference
Limited_poll_data_abs_diff(n, inner) ==
    IF inner.kind = "Pending" THEN [out |-> Pending, remaining |-> n]
    ELSE IF inner.kind = "None" THEN [out |-> ReadyNone, remaining |-> n]
    ELSE IF inner.kind = "Data" THEN
        IF Len(inner.data) > n
        THEN [out |-> LengthLimitExceeded, remaining |-> Len(inner.data) - n]
        ELSE [out |-> inner, remaining |-> n - Len(inner.data)]
    ELSE [out |-> Other(inner.err), remaining |-> n]

\* Limited::poll_data on the answer of the inner body's poll_data
Limited_poll_data(n, inner) ==
    IF inner.kind = "Pending" THEN [out |-> Pending, remaining |-> n]
    ELSE IF inner.kind = "None" THEN [out |-> ReadyNone, remaining |-> n]
    ELSE IF inner.kind = "Data" THEN
        IF Len(inner.data) > n
        THEN [out |-> LengthLimitExceeded, remaining |-> 0]
        ELSE [out |-> inner, remaining |-> n - Len(inner.data)]
    ELSE [out |-> Other(inner.err), remaining |-> n]

\* a poll_trailers that reports an inner error as the limit being exceeded
Limited_poll_trailers_exceeded(inner) ==
    IF inner.kind = "Err" THEN LengthLimitExceeded ELSE inner

\* Limited::poll_trailers on the answer of the inner body's poll_trailers
Limited_poll_trailers(inner) ==
    IF inner.kind = "Err" THEN Other(inner.err) ELSE inner

\* what poll_data of an inner body can return
DataOutcomes ==
    {Pending, ReadyNone, ReadyErr("oh no")} \cup {DataFrame(d) : d \in Chunks(MaxChunk)}

\* what poll_trailers of an inner body can return: Pending, Ok(None),
\* Ok(Some(map)), Err
TrailersOutcomes ==
    {Pending, ReadyNone, ReadyErr("oh no"), ReadyErr("again"),
     TrailersFrame(MapOf("foo", "bar"))}

RECURSIVE DataBytes(_)
DataBytes(polls) ==
    IF polls = <<>> THEN 0
    ELSE (IF is_data(Head(polls)) THEN Len(Head(polls).data) ELSE 0) + DataBytes(Tail(polls))

NoHint == Hint(0, NoUpper)

LimitedIdle ==
    /\ remaining = "idle" /\ lim_inner = "idle" /\ lim_out = "idle"
    /\ lim_hint = "idle" /\ lim_hist = "idle"

\* Limited::new over a body with any script, with any limit
LimitedInit ==
    /\ remaining \in 0..MaxLimit
    /\ lim_inner \in SeqsUpTo(DataOutcomes, MaxDataPolls)
    /\ lim_out = Pending
    /\ lim_hint = NoHint
    /\ lim_hist = [limit |-> remaining, total |-> DataBytes(lim_inner), forwarded |-> 0,
                   exceeded |-> FALSE, after_exceeded |-> FALSE, op |-> "new",
                   before |-> remaining, inner |-> Pending, inner_hint |-> NoHint,
                   eos |-> FALSE]

\* a call of Limited::poll_data
LimitedPollData ==
    /\ LET i == Mock_poll_frame(lim_inner)
           r == Limited_poll_data(remaining, i.out)
       IN  /\ lim_inner' = i.polls
           /\ remaining' = r.remaining
           /\ lim_out' = r.out
           /\ lim_hist' = [lim_hist EXCEPT
                   !.forwarded = @ + (IF is_data(r.out) THEN Len(r.out.data) ELSE 0),
                   !.exceeded = @ \/ r.out = LengthLimitExceeded,
                   !.after_exceeded = lim_hist.exceeded,
                   !.op = "poll_data",
                   !.before = remaining,
                   !.inner = i.out,
                   !.inner_hint = NoHint]
    /\ lim_hint' = NoHint
    /\ UNCHANGED notLimited

\* a call of Limited::poll_trailers
LimitedPollTrailers ==
    /\ \E i \in TrailersOutcomes :
        /\ lim_out' = Limited_poll_trailers(i)
        /\ lim_hist' = [lim_hist EXCEPT !.op = "poll_trailers", !.before = remaining,
                                        !.inner = i, !.inner_hint = NoHint]
    /\ lim_hint' = NoHint
    /\ UNCHANGED <<remaining, lim_inner>>
    /\ UNCHANGED notLimited

\* Limited::is_end_stream: the answer of the inner body
Limited_is_end_stream(inner) == Mock_is_end_stream(inner)

\* a call of Limited::is_end_stream
LimitedIsEndStream ==
    /\ lim_hist' = [lim_hist EXCEPT !.op = "is_end_stream", !.before = remaining,
                                    !.inner = Pending, !.inner_hint = NoHint,
                                    !.eos = Limited_is_end_stream(lim_inner)]
    /\ lim_hint' = NoHint
    /\ UNCHANGED <<remaining, lim_inner, lim_out>>
    /\ UNCHANGED notLimited

\* a call of Limited::size_hint, the inner body reporting any well-formed hint
LimitedSizeHint ==
    /\ \E h \in {x \in Hints : WellFormed(x)} :
        /\ lim_hint' = Limited_size_hint(remaining, h)
        /\ lim_hist' = [lim_hist EXCEPT !.op = "size_hint", !.before = remaining,
                                        !.inner = Pending, !.inner_hint = h]
    /\ UNCHANGED <<remaining, lim_inner, lim_out>>
    /\ UNCHANGED notLimited

-----------------------------------------------------------------------------
(* Throttle.  cursor and byte_rate are f64.  byte_rate is kept as the record   *)
(* [bytes, millis, shift, err] and stands for                                 *)
(*     (bytes * 2^shift + err) / (millis * 2^shift),                          *)
(* err being what the division of Throttle::new rounds bytes / millis by; a   *)
(* cursor [x, e] stands for (x * 2^shift + e) / (millis * 2^shift): x over    *)
(* millis is the value exact arithmetic gives, and e the rounding error the   *)
(* f64 operations have added to it.  Every operation is computed exactly and  *)
(* rounded to the nearest f64, ties to even, as IEEE 754 does.  2^-shift is   *)
(* the spacing of the f64s at byte_rate (at 1.0 for a rate above 1), so that  *)
(* every value the code computes is a whole number of these units.            *)

Abs(x) == IF x < 0 THEN -x ELSE x

F64(x, e) == [x |-> x, e |-> e]

RECURSIVE BinadeUp(_, _, _)
BinadeUp(a, d, m) == IF 2^(m + 1) * d <= a THEN BinadeUp(a, d, m + 1) ELSE m

RECURSIVE BinadeDown(_, _, _)
BinadeDown(a, d, m) == IF 2^(-m) * a < d THEN BinadeDown(a, d, m - 1) ELSE m

\* the exponent of the f64 nearest to a / d, a > 0: the largest m with
\* 2^m <= a / d
Binade(a, d) == IF a >= d THEN BinadeUp(a, d, 0) ELSE BinadeDown(a, d, 0)

\* 2^j modulo d
RECURSIVE Pow2Mod(_, _)
Pow2Mod(j, d) ==
    IF j <= 20 THEN 2^j % d ELSE ((2^20 % d) * Pow2Mod(j - 20, d)) % d

\* the exponent of (x * 2^shift + e) / (d * 2^shift), m0 being that of x / d:
\* one less where x / d is a power of two and e brings the value below it
f64_exponent_near(x, e, d, m0) ==
    IF (IF m0 >= 0 THEN Abs(x) = 2^m0 * d ELSE Abs(x) * 2^(-m0) = d)
        /\ ((x > 0 /\ e < 0) \/ (x < 0 /\ e > 0))
    THEN m0 - 1 ELSE m0

f64_exponent(x, e, d) == f64_exponent_near(x, e, d, Binade(Abs(x), d))

\* the mantissa of the f64 next below a value of exponent m that lies `low`
\* units above a multiple of 2^54 / 2^(52 - m) is even
f64_even(x, d, m, G, low) ==
    ((2 * (((x % d) * Pow2Mod(51 - m, d)) % d)) \div d + low \div G) % 2 = 0

\* the nearer of the f64 rem units below the value and the one G - rem above
\* it, on a tie the one with the even mantissa
f64_nearest(x, e, G, rem, even) ==
    IF 2 * rem < G \/ (2 * rem = G /\ even)
    THEN F64(x, e - rem) ELSE F64(x, e + G - rem)

\* the f64s around a value of exponent m are 2^(m - 52) apart, which is
\* G = d * 2^g units of e, and the value lies low % G units above one of them
f64_round_to(x, e, d, m, G, low) ==
    f64_nearest(x, e, G, low % G, f64_even(x, d, m, G, low))

f64_round_at(x, e, d, g, m) ==
    IF g < 0 THEN F64(x, e)
    ELSE f64_round_to(x, e, d, m, d * 2^g,
                      2^g * (((x % d) * Pow2Mod(52 - m, d)) % d) + e)

f64_round_with(x, e, d, shift, m) == f64_round_at(x, e, d, m - 52 + shift, m)

\* the rounding of an f64 operation: the f64 nearest to the exact result
\* (x * 2^shift + e) / (d * 2^shift), ties to the even mantissa.  A result
\* below the spacing of the operands is exact, and so is a whole number below
\* 2^53 over a power of two
f64_round(x, e, d, shift) ==
    IF x = 0 \/ (e = 0 /\ Pow2Mod(shift, d) = 0) THEN F64(x, e)
    ELSE f64_round_with(x, e, d, shift, f64_exponent(x, e, d))

\* Throttle::new: byte_rate = f64::from(bytes) / f64::from(millis)
Throttle_byte_rate(bytes, millis) ==
    LET m == Binade(bytes, millis)
        shift == 52 - (IF m < 0 THEN m ELSE 0)
    IN  [bytes |-> bytes, millis |-> millis, shift |-> shift,
         err |-> f64_round(bytes, 0, millis, shift).e]

\* n * byte_rate, n a whole number
f64_mul(n, rate) ==
    f64_round(n * rate.bytes, n * rate.err, rate.millis, rate.shift)

\* c + p
f64_add(c, p, rate) == f64_round(c.x + p.x, c.e + p.e, rate.millis, rate.shift)

\* c - n, n a whole number
f64_sub(c, n, rate) == f64_round(c.x - n * rate.millis, c.e, rate.millis, rate.shift)

\* c <= 0.0
f64_le_zero(c) == c.x < 0 \/ (c.x = 0 /\ c.e <= 0)

\* to_f64: n.try_into().unwrap_or(u32::MAX), then f64::from.  Every length
\* and every time of this model is far below u32::MAX, where the conversion
\* saturates, and is an integer, which f64 holds exactly
to_f64(n) == n

\* the cap on the elapsed time that is credited, in milliseconds
ElapsedCap == 2000

\* State::Init, State::Ready(time), State::Waiting(sleep, time); the Sleep is
\* its deadline
InitState == [tag |-> "Init", time |-> 0, deadline |-> 0]
ReadyState(time) == [tag |-> "Ready", time |-> time, deadline |-> 0]
WaitingState(deadline, time) == [tag |-> "Waiting", time |-> time, deadline |-> deadline]

\* a credit for all of the elapsed time
Throttle_credit_uncapped(cur, rate, time, clock) ==
    f64_add(cur, f64_mul(to_f64(clock - time), rate), rate)

\* the credit of an expired wait: cursor += elapsed, capped, times byte_rate
Throttle_credit(cur, rate, time, clock) ==
    LET elapsed == to_f64(clock - time)
        capped == IF elapsed > ElapsedCap THEN ElapsedCap ELSE elapsed
    IN  f64_add(cur, f64_mul(capped, rate), rate)

\* the quotient |cursor| / byte_rate of exact arithmetic, truncated
ExactWait(cur, rate) == Abs(cur.x) \div rate.bytes

\* a wait twice as long as the deficit asks for
Throttle_wait_millis_double(cur, rate) == 2 * ExactWait(cur, rate)

\* the f64 quotient |cursor| / byte_rate is rounded to an f64 below the whole
\* number k = 2^mk + ..., the exact quotient being short / (byte_rate scaled)
\* below k: it is so when that is more than half of the distance from k to the
\* f64 before it
f64_below(k, mk, short, rate) ==
    LET lhs == IF k = 2^mk THEN 4 * short ELSE 2 * short
        half == rate.bytes * 2^(mk + rate.shift - 52)
    IN  IF rate.err > 0 THEN lhs >= half + 1
        ELSE IF rate.err < 0 THEN lhs >= half
        ELSE lhs > half

\* the truncated f64 quotient, k being the truncated exact quotient and a the
\* numerator of |cursor|, ec its rounding error.  The f64 quotient differs
\* from the exact one by less than the distance of two f64s, so that the
\* truncation differs only where a / bytes is a whole number k >= 1
f64_quotient(a, ec, k, rate) ==
    IF a % rate.bytes # 0 \/ k = 0 \/ k * rate.err - ec <= 0 THEN k
    ELSE IF f64_below(k, Binade(k, 1), k * rate.err - ec, rate) THEN k - 1 ELSE k

\* wait_millis as u64: the f64 |cursor| / byte_rate, truncated
Throttle_wait_millis(cur, rate) ==
    f64_quotient(Abs(cur.x),
                 IF cur.x < 0 \/ (cur.x = 0 /\ cur.e < 0) THEN -cur.e ELSE cur.e,
                 ExactWait(cur, rate), rate)

\* the Waiting and Init arms of Throttle::poll_data: where the loop stands
\* when it either returns Pending or polls the inner body
Throttle_enter(state, cur, rate, clock) ==
    IF state.tag = "Init" THEN [state |-> ReadyState(clock), cursor |-> cur]
    ELSE IF state.tag = "Waiting" /\ clock >= state.deadline
    THEN [state |-> ReadyState(clock),
          cursor |-> Throttle_credit(cur, rate, state.time, clock)]
    ELSE [state |-> state, cursor |-> cur]

\* a Ready arm that holds an end-of-stream back behind a timer of its own
Throttle_ready_delays_end(inner, state, cur, rate, clock) ==
    LET r == Mock_poll_frame(inner) IN
    IF r.out.kind = "None"
    THEN [out |-> Pending, inner |-> inner, cursor |-> cur,
          state |-> WaitingState(clock + 1, state.time)]
    ELSE [out |-> r.out, inner |-> r.polls, state |-> state, cursor |-> cur]

\* a Ready arm that keeps a chunk to itself when the chunk overdraws the
\* cursor: the timer is armed and the caller gets Pending
Throttle_ready_drops_chunk(inner, state, cur, rate, clock) ==
    LET r == Mock_poll_frame(inner) IN
    IF r.out.kind = "Data" THEN
        LET debited == f64_sub(cur, to_f64(Len(r.out.data)), rate) IN
        [out |-> IF f64_le_zero(debited) /\ Len(r.out.data) > 0
                 THEN Pending ELSE r.out,
         inner |-> r.polls, cursor |-> debited,
         state |-> IF f64_le_zero(debited)
                   THEN WaitingState(clock + Throttle_wait_millis(debited, rate),
                                     state.time)
                   ELSE state]
    ELSE [out |-> r.out, inner |-> r.polls, state |-> state, cursor |-> cur]

\* the Ready arm of Throttle::poll_data
Throttle_ready(inner, state, cur, rate, clock) ==
    LET r == Mock_poll_frame(inner) IN
    IF r.out.kind = "Data" THEN
        LET debited == f64_sub(cur, to_f64(Len(r.out.data)), rate) IN
        [out |-> r.out, inner |-> r.polls, cursor |-> debited,
         state |-> IF f64_le_zero(debited)
                   THEN WaitingState(clock + Throttle_wait_millis(debited, rate),
                                     state.time)
                   ELSE state]
    ELSE [out |-> r.out, inner |-> r.polls, state |-> state, cursor |-> cur]

\* Throttle::poll_data
Throttle_poll_data(inner, state, cur, rate, clock) ==
    LET e == Throttle_enter(state, cur, rate, clock) IN
    IF e.state.tag = "Waiting"
    THEN [out |-> Pending, inner |-> inner, state |-> state, cursor |-> cur,
          polled |-> FALSE, inner_out |-> Pending, entered |-> e]
    ELSE LET r == Throttle_ready(inner, e.state, e.cursor, rate, clock) IN
         [out |-> r.out, inner |-> r.inner, state |-> r.state, cursor |-> r.cursor,
          polled |-> TRUE, inner_out |-> Mock_poll_frame(inner).out, entered |-> e]

\* Throttle::poll_trailers
Throttle_poll_trailers(inner_out) == inner_out

\* the rates: bytes per millis milliseconds
Rates == {Throttle_byte_rate(1, 2048), Throttle_byte_rate(2, 1),
          Throttle_byte_rate(2, 5)}

\* tests::per_second_256: the rate and the chunks
TestRate == Throttle_byte_rate(256, 1000)
ZeroBytes(n) == [i \in 1..n |-> 0]
TestChunks == <<DataFrame(ZeroBytes(128)), DataFrame(ZeroBytes(128)),
                DataFrame(ZeroBytes(256)), DataFrame(ZeroBytes(128)),
                DataFrame(ZeroBytes(128))>>

\* how long a consumer may dawdle before it polls, in milliseconds
ClockSteps == {2500}

NoCall == [op |-> "new", polled |-> FALSE, inner_out |-> Pending,
           entered |-> [state |-> InitState, cursor |-> F64(0, 0)],
           before |-> [state |-> InitState, cursor |-> F64(0, 0)]]

ThrottleIdle ==
    /\ th_inner = "idle" /\ th_state = "idle" /\ cursor = "idle"
    /\ byte_rate = "idle" /\ now = "idle" /\ th_out = "idle" /\ th_hist = "idle"

\* Throttle::new over a body with any script at one of the rates, or over the
\* body of the test at the rate of the test
ThrottleInit ==
    /\ \/ th_inner \in SeqsUpTo(DataOutcomes, MaxPolls) /\ byte_rate \in Rates
       \/ th_inner = TestChunks /\ byte_rate = TestRate
    /\ th_state = InitState
    /\ cursor = F64(0, 0)
    /\ now = 0
    /\ th_out = Pending
    /\ th_hist = [start |-> -1, returned |-> <<>>, prompt |-> TRUE,
                  inner_ready |-> TRUE, call |-> NoCall]

\* a call of Throttle::poll_data
ThrottlePollData ==
    /\ LET r == Throttle_poll_data(th_inner, th_state, cursor, byte_rate, now) IN
        /\ th_inner' = r.inner
        /\ th_state' = r.state
        /\ cursor' = r.cursor
        /\ th_out' = r.out
        /\ th_hist' = [th_hist EXCEPT
                !.start = IF @ = -1 THEN now ELSE @,
                !.returned = IF is_data(r.out)
                             THEN Append(@, [len |-> Len(r.out.data), at |-> now])
                             ELSE @,
                !.inner_ready = @ /\ ~(r.polled /\ r.inner_out.kind = "Pending"),
                !.call = [op |-> "poll_data", polled |-> r.polled,
                          inner_out |-> r.inner_out, entered |-> r.entered,
                          before |-> [state |-> th_state, cursor |-> cursor]]]
    /\ UNCHANGED <<byte_rate, now>>
    /\ UNCHANGED notThrottle

\* a call of Throttle::poll_trailers, the inner body answering anything
ThrottlePollTrailers ==
    /\ \E i \in TrailersOutcomes :
        /\ th_out' = Throttle_poll_trailers(i)
        /\ th_hist' = [th_hist EXCEPT
                !.call = [op |-> "poll_trailers", polled |-> TRUE, inner_out |-> i,
                          entered |-> [state |-> th_state, cursor |-> cursor],
                          before |-> [state |-> th_state, cursor |-> cursor]]]
    /\ UNCHANGED <<th_inner, th_state, cursor, byte_rate, now>>
    /\ UNCHANGED notThrottle

\* the Sleep of the Waiting state reaches its deadline and wakes the consumer
ThrottleTimerFires ==
    /\ th_state.tag = "Waiting"
    /\ now < th_state.deadline
    /\ now' = th_state.deadline
    /\ UNCHANGED <<th_inner, th_state, cursor, byte_rate, th_out, th_hist>>
    /\ UNCHANGED notThrottle

\* time passes while the consumer does something else
ThrottleClockAdvance ==
    /\ \E d \in ClockSteps :
        /\ now + d <= MaxClock
        /\ now' = now + d
    /\ th_hist' = [th_hist EXCEPT !.prompt = FALSE]
    /\ UNCHANGED <<th_inner, th_state, cursor, byte_rate, th_out>>
    /\ UNCHANGED notThrottle

-----------------------------------------------------------------------------
(* The Data future of BodyExt::data *)

\* Data::poll: one poll_frame of the body; a data frame resolves the future
\* with its data, an error and the end of the stream resolve it too, and a
\* frame that is not data is dropped with a Pending
Data_poll(polls) ==
    LET r == Mock_poll_frame(polls) IN
    [out |-> IF is_data(r.out) THEN r.out
             ELSE IF IsFrame(r.out) THEN Pending
             ELSE r.out,
     polls |-> r.polls,
     inner_out |-> r.out]

DataIdle == data_body = "idle" /\ data_out = "idle" /\ data_hist = "idle"

\* a body with any script, before body.data() is first called
DataInit ==
    /\ data_body \in SeqsUpTo(FrameOutcomes, MaxPolls)
    /\ data_out = Pending
    /\ data_hist = [polled |-> FALSE, inner_out |-> Pending, waker |-> FALSE]

\* a poll of the future of body.data(); the body registers the waker when
\* its poll_frame returns Pending, and on no other answer
DataPoll ==
    /\ LET r == Data_poll(data_body) IN
        /\ data_body' = r.polls
        /\ data_out' = r.out
        /\ data_hist' = [polled |-> TRUE, inner_out |-> r.inner_out,
                         waker |-> r.inner_out.kind = "Pending"]
    /\ UNCHANGED notData

-----------------------------------------------------------------------------
(* SizeHint as a value.  The fields are u64; the model keeps the width, with *)
(* U64Max in the place of u64::MAX.  An addition that overflows panics in a  *)
(* build with overflow checks and wraps in a build without them.             *)

U64 == 0..U64Max

\* SizeHint::new
SizeHint_new == Hint(0, NoUpper)

\* SizeHint::with_exact
with_exact(value) == Hint(value, Upper(value))

\* SizeHint::set_lower
set_lower(hint, value) ==
    IF value <= (IF hint.upper.some THEN hint.upper.v ELSE U64Max)
    THEN [hint EXCEPT !.lower = value]
    ELSE [hint EXCEPT !.panicked = TRUE]

\* SizeHint::exact, an Option
exact(hint) ==
    IF hint.upper.some /\ hint.lower = hint.upper.v THEN hint.upper ELSE NoUpper

\* the + of two u64
u64_add(build, x, y) ==
    [v |-> (x + y) % (U64Max + 1), panic |-> build = "debug" /\ x + y > U64Max]

\* what is left when an addition has panicked: no hint
AddPanicked == [lower |-> 0, upper |-> NoUpper, panicked |-> TRUE]

\* <SizeHint as Add>::add
SizeHint_add(build, a, b) ==
    LET lo == u64_add(build, a.lower, b.lower)
        both == a.upper.some /\ b.upper.some
        up == u64_add(build, a.upper.v, b.upper.v)
    IN  IF lo.panic \/ (both /\ up.panic) THEN AddPanicked
        ELSE Hint(lo.v, IF both THEN Upper(up.v) ELSE NoUpper)

\* the hints with lower <= upper: those new, with_exact and the setters build
WellFormedHints ==
    {h \in {Hint(l, NoUpper) : l \in U64}
              \cup {Hint(l, Upper(u)) : l \in U64, u \in U64} : WellFormed(h)}

Builds == {"debug", "release"}

NoResult == [panic |-> FALSE, exact |-> NoUpper]

SizeHintIdle ==
    /\ sh_hint = "idle" /\ sh_build = "idle" /\ sh_out = "idle" /\ sh_hist = "idle"

SizeHintInit ==
    /\ sh_hint = SizeHint_new
    /\ sh_build \in Builds
    /\ sh_out = NoResult
    /\ sh_hist = [op |-> "new", arg |-> 0, rhs |-> SizeHint_new, before |-> SizeHint_new]

\* the hint is there: it was not moved into an addition that panicked
HintAlive == ~(sh_hist.op = "add" /\ sh_out.panic)

\* SizeHint::new
SizeHintNew ==
    /\ HintAlive
    /\ sh_hint' = SizeHint_new
    /\ sh_out' = NoResult
    /\ sh_hist' = [op |-> "new", arg |-> 0, rhs |-> SizeHint_new, before |-> sh_hint]
    /\ UNCHANGED sh_build
    /\ UNCHANGED notSizeHint

\* SizeHint::with_exact
SizeHintWithExact ==
    /\ HintAlive
    /\ \E value \in U64 :
        /\ sh_hint' = with_exact(value)
        /\ sh_hist' = [op |-> "with_exact", arg |-> value, rhs |-> SizeHint_new,
                       before |-> sh_hint]
    /\ sh_out' = NoResult
    /\ UNCHANGED sh_build
    /\ UNCHANGED notSizeHint

\* a call of set_lower; after a panic the hint is as the call left it
SizeHintSetLower ==
    /\ HintAlive
    /\ \E value \in U64 :
        LET r == set_lower(sh_hint, value) IN
        /\ sh_hint' = [r EXCEPT !.panicked = FALSE]
        /\ sh_out' = [panic |-> r.panicked, exact |-> NoUpper]
        /\ sh_hist' = [op |-> "set_lower", arg |-> value, rhs |-> SizeHint_new,
                       before |-> sh_hint]
    /\ UNCHANGED sh_build
    /\ UNCHANGED notSizeHint

\* a call of set_upper
SizeHintSetUpper ==
    /\ HintAlive
    /\ \E value \in U64 :
        LET r == set_upper(sh_hint, value) IN
        /\ sh_hint' = [r EXCEPT !.panicked = FALSE]
        /\ sh_out' = [panic |-> r.panicked, exact |-> NoUpper]
        /\ sh_hist' = [op |-> "set_upper", arg |-> value, rhs |-> SizeHint_new,
                       before |-> sh_hint]
    /\ UNCHANGED sh_build
    /\ UNCHANGED notSizeHint

\* a call of set_exact
SizeHintSetExact ==
    /\ HintAlive
    /\ \E value \in U64 :
        /\ sh_hint' = set_exact(sh_hint, value)
        /\ sh_hist' = [op |-> "set_exact", arg |-> value, rhs |-> SizeHint_new,
                       before |-> sh_hint]
    /\ sh_out' = NoResult
    /\ UNCHANGED sh_build
    /\ UNCHANGED notSizeHint

\* a call of exact
SizeHintExact ==
    /\ HintAlive
    /\ sh_out' = [panic |-> FALSE, exact |-> exact(sh_hint)]
    /\ sh_hist' = [op |-> "exact", arg |-> 0, rhs |-> SizeHint_new, before |-> sh_hint]
    /\ UNCHANGED <<sh_hint, sh_build>>
    /\ UNCHANGED notSizeHint

\* hint = hint + rhs, with a well-formed right operand
SizeHintAdd ==
    /\ HintAlive
    /\ \E rhs \in WellFormedHints :
        LET r == SizeHint_add(sh_build, sh_hint, rhs) IN
        /\ sh_hint' = IF r.panicked THEN sh_hint ELSE r
        /\ sh_out' = [panic |-> r.panicked, exact |-> NoUpper]
        /\ sh_hist' = [op |-> "add", arg |-> 0, rhs |-> rhs, before |-> sh_hint]
    /\ UNCHANGED sh_build
    /\ UNCHANGED notSizeHint

\* the sum of two results, of which either may be the panic of an earlier sum
SizeHint_add_results(build, x, y) ==
    IF x.panicked \/ y.panicked THEN AddPanicked ELSE SizeHint_add(build, x, y)

NoSums == [done |-> FALSE, ab |-> SizeHint_new, ba |-> SizeHint_new,
           ab_c |-> SizeHint_new, a_bc |-> SizeHint_new]

AddIdle == add_args = "idle" /\ add_build = "idle" /\ add_sums = "idle"

\* any three well-formed hints
AddInit ==
    /\ add_args \in [a : WellFormedHints, b : WellFormedHints, c : WellFormedHints]
    /\ add_build \in Builds
    /\ add_sums = NoSums

\* the four sums of the three hints
AddSums ==
    /\ ~add_sums.done
    /\ LET a == add_args.a
           b == add_args.b
           c == add_args.c
           ab == SizeHint_add(add_build, a, b)
           bc == SizeHint_add(add_build, b, c)
       IN  add_sums' = [done |-> TRUE,
                        ab |-> ab,
                        ba |-> SizeHint_add(add_build, b, a),
                        ab_c |-> SizeHint_add_results(add_build, ab, c),
                        a_bc |-> SizeHint_add_results(add_build, a, bc)]
    /\ UNCHANGED <<add_args, add_build>>
    /\ UNCHANGED notAdd

-----------------------------------------------------------------------------
(* BufList: the list of segments behind Collected and aggregate.  A segment *)
(* is the sequence of its unread bytes.                                      *)

\* BufList::remaining: the unread bytes of all segments
RECURSIVE BufList_remaining(_)
BufList_remaining(bufs) ==
    IF bufs = <<>> THEN 0 ELSE Len(Head(bufs)) + BufList_remaining(Tail(bufs))

\* an advance that leaves a segment it has just drained at the front
RECURSIVE BufList_advance_keeps_drained(_, _)
BufList_advance_keeps_drained(bufs, cnt) ==
    IF cnt = 0 THEN bufs
    ELSE LET front == Head(bufs)
             rem == Len(front)
         IN  IF rem >= cnt
             THEN <<SubSeq(front, cnt + 1, rem)>> \o Tail(bufs)
             ELSE BufList_advance_keeps_drained(Tail(bufs), cnt - rem)

\* BufList::advance for cnt <= remaining(): take cnt bytes off the front,
\* dropping every segment that is drained
RECURSIVE BufList_advance(_, _)
BufList_advance(bufs, cnt) ==
    IF cnt = 0 THEN bufs
    ELSE LET front == Head(bufs)
             rem == Len(front)
         IN  IF rem > cnt
             THEN <<SubSeq(front, cnt + 1, rem)>> \o Tail(bufs)
             ELSE BufList_advance(Tail(bufs), cnt - rem)

\* the segments pushed: runs of at most MaxChunk bytes, each 0 or 1
Segments == UNION {[1..k -> {0, 1}] : k \in 0..MaxChunk}

BufListIdle == bl_bufs = "idle" /\ bl_out = "idle" /\ bl_hist = "idle"

\* BufList::new
BufListInit ==
    /\ bl_bufs = <<>>
    /\ bl_out = [panicked |-> FALSE]
    /\ bl_hist = [op |-> "new", arg |-> 0, seg |-> <<>>, before |-> <<>>,
                  pushed |-> <<>>, advanced |-> 0, pushes |-> 0]

\* BufList::push of a segment
BufListPush ==
    /\ ~bl_out.panicked
    /\ bl_hist.pushes < MaxPushes
    /\ \E seg \in Segments :
        /\ bl_bufs' = BufList_push(bl_bufs, seg)
        /\ bl_hist' = [bl_hist EXCEPT !.op = "push", !.arg = 0, !.seg = seg,
                                      !.before = bl_bufs,
                                      !.pushed = @ \o seg,
                                      !.pushes = @ + 1]
    /\ UNCHANGED bl_out
    /\ UNCHANGED notBufList

\* Buf::advance on the list: it panics when asked for more than remaining()
BufListAdvance ==
    /\ ~bl_out.panicked
    /\ \E cnt \in 0..(BufList_remaining(bl_bufs) + 1) :
        /\ IF cnt <= BufList_remaining(bl_bufs)
           THEN /\ bl_bufs' = BufList_advance(bl_bufs, cnt)
                /\ bl_out' = [panicked |-> FALSE]
                /\ bl_hist' = [bl_hist EXCEPT !.op = "advance", !.arg = cnt,
                                              !.seg = <<>>, !.before = bl_bufs,
                                              !.advanced = @ + cnt]
           ELSE /\ bl_bufs' = bl_bufs
                /\ bl_out' = [panicked |-> TRUE]
                /\ bl_hist' = [bl_hist EXCEPT !.op = "advance", !.arg = cnt,
                                              !.seg = <<>>, !.before = bl_bufs]
    /\ UNCHANGED notBufList

-----------------------------------------------------------------------------
(* Either *)

\* Either::Left, Either::Right
Left(x) == [tag |-> "Left", val |-> x]
Right(y) == [tag |-> "Right", val |-> y]

\* a flip that makes a Left of either case
Either_flip_to_left(e) == Left(e.val)

\* Either::flip
Either_flip(e) ==
    IF e.tag = "Left" THEN Right(e.val) ELSE Left(e.val)

EitherIdle == either_value = "idle" /\ either_hist = "idle"

\* any value of Either<L, R>, with L and R the same type of small numbers
EitherInit ==
    /\ either_value \in {Left(x) : x \in 0..MaxValue} \cup {Right(y) : y \in 0..MaxValue}
    /\ either_hist = [start |-> either_value, flips |-> 0]

\* value = value.flip()
EitherFlip ==
    /\ either_hist.flips < MaxFlips
    /\ either_value' = Either_flip(either_value)
    /\ either_hist' = [either_hist EXCEPT !.flips = @ + 1]
    /\ UNCHANGED notEither

-----------------------------------------------------------------------------------------------------------------------------------------------------
(* Fuse over a WithTrailers: Fuse<B> with B = WithTrailers<Mock, F>, and next *)
(* to it the same WithTrailers polled directly                                *)

NoAdapter == [some |-> FALSE, state |-> TrailersState(None)]
SomeAdapter(state) == [some |-> TRUE, state |-> state]

\* Fuse::new, body.is_end_stream() being WithTrailers::is_end_stream
FuseWT_new(state) ==
    IF WithTrailers_is_end_stream(state) THEN NoAdapter ELSE SomeAdapter(state)

\* the end-of-stream flag Fuse::poll_frame pairs with the answer of its body
FuseWT_eos(out, state) ==
    IF IsFrame(out) THEN WithTrailers_is_end_stream(state)
    ELSE out.kind \in {"Err", "None"}

\* Fuse::poll_frame
FuseWT_poll_frame(inner) ==
    IF inner.some THEN
        LET r == WithTrailers_poll_frame(inner.state) IN
        [out |-> r.out,
         inner |-> IF FuseWT_eos(r.out, r.state) THEN NoAdapter
                   ELSE SomeAdapter(r.state)]
    ELSE [out |-> ReadyNone, inner |-> inner]

FuseWTIdle == fw_inner = "idle" /\ fw_twin = "idle" /\ fw_hist = "idle"

\* Fuse::new(body.with_trailers(fut)) for any scripted body and any future
FuseWTInit ==
    /\ \E body \in SeqsUpTo(WTOutcomes, MaxPolls), fut \in Futures :
        /\ fw_twin = WithTrailers_new(body, fut)
        /\ fw_inner = FuseWT_new(WithTrailers_new(body, fut))
    /\ fw_hist = [fused |-> <<>>, direct |-> <<>>]

\* a call of Fuse::poll_frame, and the same call on the twin
FuseWTPollFrame ==
    /\ Len(fw_hist.fused) < MaxPolls + MaxFutPending + 2
    /\ LET r == FuseWT_poll_frame(fw_inner)
           d == WithTrailers_poll_frame(fw_twin)
       IN  /\ fw_inner' = r.inner
           /\ fw_twin' = d.state
           /\ fw_hist' = [fused |-> Append(fw_hist.fused, r.out),
                          direct |-> Append(fw_hist.direct, d.out)]
    /\ UNCHANGED notFuseWT

-----
(* Fuse, WithTrailers and Throttle side by side: a run is about one of them, *)
(* chosen at the start.                                                      *)

AdapterIdle == adapter = "idle"

AnyFusePollFrame == adapter = "Fuse" /\ FusePollFrame
AnyFuseDrop == adapter = "Fuse" /\ FuseDrop
AnyWTPollFrame == adapter = "WithTrailers" /\ WTPollFrame
AnyWTIsEndStream == adapter = "WithTrailers" /\ WTIsEndStream
AnyThrottlePollData == adapter = "Throttle" /\ ThrottlePollData
AnyThrottlePollTrailers == adapter = "Throttle" /\ ThrottlePollTrailers
AnyThrottleTimerFires == adapter = "Throttle" /\ ThrottleTimerFires
AnyThrottleClockAdvance == adapter = "Throttle" /\ ThrottleClockAdvance

-----------------------------------------------------------------------------
(* Body for Pin<P>, &mut T and Box<T> *)

\* Body::size_hint as the trait provides it: SizeHint::default()
Body_size_hint_default == Hint(0, NoUpper)

\* a body behind a pointer: what its poll_data and its poll_trailers will
\* answer, the size_hint it gives, and whether it defines is_end_stream
WrappedHints == {Body_size_hint_default, Hint(1, NoUpper), Hint(2, Upper(2))}
WrappedBodies ==
    [data : SeqsUpTo(DataOutcomes, MaxWrapped),
     trailers : SeqsUpTo(TrailersOutcomes, 1),
     hint : WrappedHints,
     tells_end : BOOLEAN]

Inner_poll_data(b) ==
    IF b.data = <<>> THEN [out |-> ReadyNone, body |-> b]
    ELSE [out |-> Head(b.data), body |-> [b EXCEPT !.data = Tail(@)]]

Inner_poll_trailers(b) ==
    IF b.trailers = <<>> THEN [out |-> ReadyNone, body |-> b]
    ELSE [out |-> Head(b.trailers), body |-> [b EXCEPT !.trailers = Tail(@)]]

Inner_is_end_stream(b) == b.tells_end /\ b.data = <<>> /\ b.trailers = <<>>

Inner_size_hint(b) == b.hint

\* the four methods of Body for a pointer of one of the three kinds: the
\* impls define is_end_stream, poll_data and poll_trailers, each handing the
\* call to the body, and leave size_hint to the trait
Wrapper_is_end_stream(kind, b) == Inner_is_end_stream(b)

Wrapper_poll_data(kind, b) == Inner_poll_data(b)

Wrapper_poll_trailers(kind, b) == Inner_poll_trailers(b)

Wrapper_size_hint(kind, b) == Body_size_hint_default

WrapperIdle == wr_body = "idle" /\ wr_kind = "idle" /\ wr_out = "idle"

\* Pin::new(&mut body), &mut body or Box::new(body)
WrapperInit ==
    /\ wr_body \in WrappedBodies
    /\ wr_kind \in {"Pin", "RefMut", "Box"}
    /\ wr_out = [op |-> "new", via |-> Pending, direct |-> Pending]

WrapperPollData ==
    /\ wr_out' = [op |-> "poll_data", via |-> Wrapper_poll_data(wr_kind, wr_body).out,
                  direct |-> Inner_poll_data(wr_body).out]
    /\ wr_body' = Wrapper_poll_data(wr_kind, wr_body).body
    /\ UNCHANGED wr_kind
    /\ UNCHANGED notWrapper

WrapperPollTrailers ==
    /\ wr_out' = [op |-> "poll_trailers",
                  via |-> Wrapper_poll_trailers(wr_kind, wr_body).out,
                  direct |-> Inner_poll_trailers(wr_body).out]
    /\ wr_body' = Wrapper_poll_trailers(wr_kind, wr_body).body
    /\ UNCHANGED wr_kind
    /\ UNCHANGED notWrapper

WrapperIsEndStream ==
    /\ wr_out' = [op |-> "is_end_stream",
                  via |-> Wrapper_is_end_stream(wr_kind, wr_body),
                  direct |-> Inner_is_end_stream(wr_body)]
    /\ UNCHANGED <<wr_body, wr_kind>>
    /\ UNCHANGED notWrapper

WrapperSizeHint ==
    /\ wr_out' = [op |-> "size_hint", via |-> Wrapper_size_hint(wr_kind, wr_body),
                  direct |-> Inner_size_hint(wr_body)]
    /\ UNCHANGED <<wr_body, wr_kind>>
    /\ UNCHANGED notWrapper

-----------------------------------------------------------------------------
(* The specifications *)

SpecCollectInit == CollectInit /\ ChannelIdle /\ WTIdle /\ FuseIdle /\ LimitedIdle /\ ChainIdle /\ ThrottleIdle /\ DataIdle /\ SizeHintIdle /\ AddIdle /\ BufListIdle /\ EitherIdle /\ AdapterIdle /\ FuseWTIdle /\ WrapperIdle
SpecCollectNext ==
    \/ CollectPoll
    \/ BufferedPoll
SpecCollect == SpecCollectInit /\ [][SpecCollectNext]_vars

SpecChannelInit == ChannelInit /\ CollectIdle /\ WTIdle /\ FuseIdle /\ LimitedIdle /\ ChainIdle /\ ThrottleIdle /\ DataIdle /\ SizeHintIdle /\ AddIdle /\ BufListIdle /\ EitherIdle /\ AdapterIdle /\ FuseWTIdle /\ WrapperIdle
SpecChannelNext ==
    \/ SenderSend
    \/ SenderSendSuspend
    \/ SenderSendResume
    \/ SenderSendClosed
    \/ SenderAbort
    \/ SenderDropTxFrame
    \/ SenderDropTxError
    \/ ChannelPollRxFrame
    \/ ChannelPollRxError
    \/ ChannelDrop
SpecChannel == SpecChannelInit /\ [][SpecChannelNext]_vars

SpecWithTrailersInit == WTInit /\ CollectIdle /\ ChannelIdle /\ FuseIdle /\ LimitedIdle /\ ChainIdle /\ ThrottleIdle /\ DataIdle /\ SizeHintIdle /\ AddIdle /\ BufListIdle /\ EitherIdle /\ AdapterIdle /\ FuseWTIdle /\ WrapperIdle
SpecWithTrailersNext ==
    \/ WTPollFrame
    \/ WTIsEndStream
SpecWithTrailers == SpecWithTrailersInit /\ [][SpecWithTrailersNext]_vars

SpecFuseInit == FuseInit /\ CollectIdle /\ ChannelIdle /\ WTIdle /\ LimitedIdle /\ ChainIdle /\ ThrottleIdle /\ DataIdle /\ SizeHintIdle /\ AddIdle /\ BufListIdle /\ EitherIdle /\ AdapterIdle /\ FuseWTIdle /\ WrapperIdle
SpecFuseNext ==
    \/ FusePollFrame
    \/ FuseDrop
SpecFuse == SpecFuseInit /\ [][SpecFuseNext]_vars

SpecLimitedInit == LimitedInit /\ CollectIdle /\ ChannelIdle /\ WTIdle /\ FuseIdle /\ ChainIdle /\ ThrottleIdle /\ DataIdle /\ SizeHintIdle /\ AddIdle /\ BufListIdle /\ EitherIdle /\ AdapterIdle /\ FuseWTIdle /\ WrapperIdle
SpecLimitedNext ==
    \/ LimitedPollData
    \/ LimitedPollTrailers
    \/ LimitedSizeHint
    \/ LimitedIsEndStream
SpecLimited == SpecLimitedInit /\ [][SpecLimitedNext]_vars

SpecChainedInit == ChainInit /\ CollectIdle /\ ChannelIdle /\ WTIdle /\ FuseIdle /\ LimitedIdle /\ ThrottleIdle /\ DataIdle /\ SizeHintIdle /\ AddIdle /\ BufListIdle /\ EitherIdle /\ AdapterIdle /\ FuseWTIdle /\ WrapperIdle
SpecChainedNext ==
    \/ ChainPollFrame
SpecChained == SpecChainedInit /\ [][SpecChainedNext]_vars

SpecThrottleInit == ThrottleInit /\ CollectIdle /\ ChannelIdle /\ WTIdle /\ FuseIdle /\ LimitedIdle /\ ChainIdle /\ DataIdle /\ SizeHintIdle /\ AddIdle /\ BufListIdle /\ EitherIdle /\ AdapterIdle /\ FuseWTIdle /\ WrapperIdle
SpecThrottleNext ==
    \/ ThrottlePollData
    \/ ThrottlePollTrailers
    \/ ThrottleTimerFires
    \/ ThrottleClockAdvance
SpecThrottle == SpecThrottleInit /\ [][SpecThrottleNext]_vars

\* the consumer has been woken, or has not polled yet: no poll_data was
\* called so far, the Sleep of the Waiting state has completed, or the last
\* poll_data left the state Ready without having returned the end-of-stream
\* of the exhausted inner body; a poll_data then changes the state
ConsumerWoken ==
    \/ th_state.tag = "Init"
    \/ th_state.tag = "Waiting" /\ now >= th_state.deadline
    \/ th_state.tag = "Ready" /\ th_inner # <<>>
    \/ th_state.tag = "Ready" /\ ~(th_out = ReadyNone /\ th_hist.call.op = "poll_data")

\* the same Throttle, its data being drained, under a runtime whose timers
\* fire (tokio's Sleep wakes the task at its deadline) and a consumer that
\* polls again once woken, at once or after a while: weak
\* fairness of the timer, and weak fairness of poll_data stated on
\* ConsumerWoken, which implies ENABLED <<ThrottlePollData>>_vars
SpecThrottleLiveNext ==
    \/ ThrottlePollData
    \/ ThrottleTimerFires
    \/ ThrottleClockAdvance
SpecThrottleLive ==
    /\ SpecThrottleInit
    /\ [][SpecThrottleLiveNext]_vars
    /\ WF_vars(ThrottleTimerFires)
    /\ ([]<>(~ConsumerWoken) \/ []<><<ThrottlePollData>>_vars)

SpecDataInit == DataInit /\ CollectIdle /\ ChannelIdle /\ WTIdle /\ FuseIdle /\ LimitedIdle /\ ChainIdle /\ ThrottleIdle /\ SizeHintIdle /\ AddIdle /\ BufListIdle /\ EitherIdle /\ AdapterIdle /\ FuseWTIdle /\ WrapperIdle
SpecDataNext ==
    \/ DataPoll
SpecData == SpecDataInit /\ [][SpecDataNext]_vars

SpecSizeHintInit == SizeHintInit /\ CollectIdle /\ ChannelIdle /\ WTIdle /\ FuseIdle /\ LimitedIdle /\ ChainIdle /\ ThrottleIdle /\ DataIdle /\ AddIdle /\ BufListIdle /\ EitherIdle /\ AdapterIdle /\ FuseWTIdle /\ WrapperIdle
SpecSizeHintNext ==
    \/ SizeHintNew
    \/ SizeHintWithExact
    \/ SizeHintSetLower
    \/ SizeHintSetUpper
    \/ SizeHintSetExact
    \/ SizeHintExact
    \/ SizeHintAdd
SpecSizeHint == SpecSizeHintInit /\ [][SpecSizeHintNext]_vars

SpecAddInit == AddInit /\ CollectIdle /\ ChannelIdle /\ WTIdle /\ FuseIdle /\ LimitedIdle /\ ChainIdle /\ ThrottleIdle /\ DataIdle /\ SizeHintIdle /\ BufListIdle /\ EitherIdle /\ AdapterIdle /\ FuseWTIdle /\ WrapperIdle
SpecAddNext ==
    \/ AddSums
SpecAdd == SpecAddInit /\ [][SpecAddNext]_vars

SpecBufListInit == BufListInit /\ CollectIdle /\ ChannelIdle /\ WTIdle /\ FuseIdle /\ LimitedIdle /\ ChainIdle /\ ThrottleIdle /\ DataIdle /\ SizeHintIdle /\ AddIdle /\ EitherIdle /\ AdapterIdle /\ FuseWTIdle /\ WrapperIdle
SpecBufListNext ==
    \/ BufListPush
    \/ BufListAdvance
SpecBufList == SpecBufListInit /\ [][SpecBufListNext]_vars

SpecEitherInit == EitherInit /\ CollectIdle /\ ChannelIdle /\ WTIdle /\ FuseIdle /\ LimitedIdle /\ ChainIdle /\ ThrottleIdle /\ DataIdle /\ SizeHintIdle /\ AddIdle /\ BufListIdle /\ AdapterIdle /\ FuseWTIdle /\ WrapperIdle
SpecEitherNext ==
    \/ EitherFlip
SpecEither == SpecEitherInit /\ [][SpecEitherNext]_vars

SpecFuseWTInit == FuseWTInit /\ CollectIdle /\ ChannelIdle /\ WTIdle /\ ChainIdle /\ FuseIdle /\ LimitedIdle /\ ThrottleIdle /\ DataIdle /\ SizeHintIdle /\ AddIdle /\ BufListIdle /\ EitherIdle /\ AdapterIdle /\ WrapperIdle
SpecFuseWTNext ==
    \/ FuseWTPollFrame
SpecFuseWT == SpecFuseWTInit /\ [][SpecFuseWTNext]_vars

SpecWrapperInit == WrapperInit /\ FuseWTIdle /\ CollectIdle /\ ChannelIdle /\ WTIdle /\ ChainIdle /\ FuseIdle /\ LimitedIdle /\ ThrottleIdle /\ DataIdle /\ SizeHintIdle /\ AddIdle /\ BufListIdle /\ EitherIdle /\ AdapterIdle
SpecWrapperNext ==
    \/ WrapperPollData
    \/ WrapperPollTrailers
    \/ WrapperIsEndStream
    \/ WrapperSizeHint
SpecWrapper == SpecWrapperInit /\ [][SpecWrapperNext]_vars

SpecAdaptersInit ==
    /\ CollectIdle /\ ChannelIdle /\ LimitedIdle /\ ChainIdle /\ DataIdle
    /\ SizeHintIdle /\ AddIdle /\ BufListIdle /\ EitherIdle /\ FuseWTIdle /\ WrapperIdle
    /\ \/ adapter = "Fuse" /\ FuseInit /\ WTIdle /\ ThrottleIdle
       \/ adapter = "WithTrailers" /\ WTInit /\ FuseIdle /\ ThrottleIdle
       \/ adapter = "Throttle" /\ ThrottleInit /\ FuseIdle /\ WTIdle
SpecAdaptersNext ==
    \/ AnyFusePollFrame
    \/ AnyFuseDrop
    \/ AnyWTPollFrame
    \/ AnyWTIsEndStream
    \/ AnyThrottlePollData
    \/ AnyThrottlePollTrailers
    \/ AnyThrottleTimerFires
    \/ AnyThrottleClockAdvance
SpecAdapters == SpecAdaptersInit /\ [][SpecAdaptersNext]_vars

-----------------------------------------------------------------------------
(* The claims *)

RECURSIVE ExpectedBytes(_)
ExpectedBytes(frames) ==
    IF frames = <<>> THEN <<>>
    ELSE (IF is_data(Head(frames)) THEN Head(frames).data ELSE <<>>)
            \o ExpectedBytes(Tail(frames))

RECURSIVE ExpectedTrailers(_, _)
ExpectedTrailers(frames, acc) ==
    IF frames = <<>> THEN acc
    ELSE IF ~is_trailers(Head(frames)) THEN ExpectedTrailers(Tail(frames), acc)
    ELSE IF acc.some
    THEN ExpectedTrailers(Tail(frames),
                          Some(HeaderMap_extend(acc.map, Head(frames).trailers)))
    ELSE ExpectedTrailers(Tail(frames), Some(Head(frames).trailers))

\* C1: when the Collect future resolves Ok, its bytes are the concatenation of
\* every data frame the body yielded, in order, and its trailers are those of
\* every trailers frame yielded, also of the frames yielded before a Pending.
C1_CollectKeepsEverything ==
    collect_out.res = "Ok" =>
        /\ to_bytes(collect_out.collected) = ExpectedBytes(collect_yielded)
        /\ collect_out.collected.trailers = ExpectedTrailers(collect_yielded, None)

InRange(x, seq) == \E i \in 1..Len(seq) : seq[i] = x

\* C2: once abort(e) has stored its error while the body is alive, the body
\* never answers a poll with a clean Ready(None) before it has yielded Err(e).
C2_AbortSurfacesError ==
    (chan_aborted /\ body_pc = "ready" /\ chan_out = ReadyNone)
        => InRange(ReadyErr(AbortError), chan_recv)

\* C3 as claimed: the first poll_frame started after abort(e) returns Err(e),
\* even when frames sent before the abort are still buffered.
C3_AbortPreemptsBufferedFrames ==
    (chan_seen.nth = 1 /\ chan_seen.frames # <<>> /\ body_pc # "poll_rx_error")
        => chan_out = ReadyErr(AbortError)

\* C3 as amended: a poll_frame started after abort(e) while frames are still
\* buffered returns the oldest buffered frame, not the error.
C3_BufferedFramesBeforeError ==
    (chan_seen.aborted /\ chan_seen.frames # <<>> /\ body_pc # "poll_rx_error")
        => chan_out = Head(chan_seen.frames)

\* two frames were buffered when abort stored its error; the next poll
\* returned the older one and the error is still in its channel
C3_Witness ==
    /\ chan_seen.aborted /\ chan_seen.nth = 1
    /\ Len(chan_seen.frames) = 2
    /\ body_pc = "ready"
    /\ chan_out = Head(chan_seen.frames)
    /\ rx_error = <<AbortError>>

\* C4: once is_end_stream() of a WithTrailers has returned true, no later
\* poll_frame yields a frame, data or trailers.
C4_EndStreamIsFinal == wt_after_eos => ~IsFrame(wt_out)

\* C5: a poll_frame of a Fuse made after one that returned Ready(None) or an
\* error returns Ready(None) and does not poll the inner body.
C5_FuseTerminal ==
    fuse_hist.after_term =>
        /\ fuse_out = ReadyNone
        /\ poll_count = fuse_hist.count_before

\* the Fuse ended on an error, was polled again, and the body it had dropped
\* would have yielded a frame
C5_Witness ==
    /\ fuse_hist.after_term /\ fuse_hist.term_by = "Err"
    /\ fuse_hist.left # <<>> /\ IsFrame(Head(fuse_hist.left))
    /\ fuse_out = ReadyNone

\* C6: a Fuse built over a body that already reports end-of-stream holds no
\* body and never polls it, however often the Fuse is polled and through its
\* drop.
C6_EndedBodyNeverPolled ==
    fuse_hist.new_eos => (~fuse_inner.some /\ poll_count = 0)

C6_Witness ==
    fuse_hist.new_eos /\ fuse_hist.polled /\ fuse_hist.dropped /\ poll_count = 0

\* C7: on an inner data frame, poll_data returns LengthLimitExceeded and sets
\* the budget to zero when the frame is larger than the budget, and otherwise
\* returns the frame unchanged with the budget lowered by the frame's size.
C7_OverBudgetFrameRefused ==
    (lim_hist.op = "poll_data" /\ is_data(lim_hist.inner)) =>
        IF Len(lim_hist.inner.data) > lim_hist.before
        THEN lim_out = LengthLimitExceeded /\ remaining = 0
        ELSE lim_out = lim_hist.inner
                /\ remaining = lim_hist.before - Len(lim_hist.inner.data)

\* a frame as large as the budget was forwarded
C7_Witness ==
    /\ lim_hist.op = "poll_data" /\ is_data(lim_hist.inner)
    /\ lim_hist.before > 0 /\ Len(lim_hist.inner.data) = lim_hist.before
    /\ lim_out = lim_hist.inner /\ remaining = 0

\* C8: the bytes forwarded never exceed the limit; until a limit error,
\* remaining = limit - forwarded; a body of at most limit bytes gets no limit
\* error.
C8_BudgetAccounting ==
    /\ lim_hist.forwarded <= lim_hist.limit
    /\ ~lim_hist.exceeded => remaining = lim_hist.limit - lim_hist.forwarded
    /\ lim_hist.total <= lim_hist.limit => ~lim_hist.exceeded

\* a body of exactly limit bytes, in two frames, was forwarded to its end
C8_Witness ==
    /\ lim_hist.total = lim_hist.limit /\ lim_hist.forwarded = lim_hist.limit
    /\ lim_hist.limit >= 2 /\ remaining = 0
    /\ lim_hist.op = "poll_data" /\ lim_hist.before = 1
    /\ ~lim_hist.exceeded

\* C9 as claimed: a poll_data made after one that returned LengthLimitExceeded
\* returns neither a data frame nor LengthLimitExceeded.
C9_ExceededOnlyOnce ==
    (lim_hist.after_exceeded /\ lim_hist.op = "poll_data") =>
        (~is_data(lim_out) /\ lim_out # LengthLimitExceeded)

\* C9 as amended: after LengthLimitExceeded the budget stays zero; a later
\* inner data frame of at least one byte yields LengthLimitExceeded again, and
\* an empty one is forwarded.
C9_ExceededKeepsBudgetZero ==
    /\ lim_hist.exceeded => remaining = 0
    /\ (lim_hist.after_exceeded /\ lim_hist.op = "poll_data" /\ is_data(lim_hist.inner)) =>
            IF Len(lim_hist.inner.data) > 0
            THEN lim_out = LengthLimitExceeded
            ELSE lim_out = lim_hist.inner

\* LengthLimitExceeded was returned a second time
C9_Witness ==
    /\ lim_hist.after_exceeded /\ lim_hist.op = "poll_data"
    /\ lim_out = LengthLimitExceeded

\* C10: size_hint with a budget of n: an inner lower bound of at least n gives
\* exactly (n, Some(n)); otherwise the lower bound is the inner one and the
\* upper bound is min(n, inner upper), or n when the inner one is absent.  In
\* every case the upper bound is min(n, inner upper), and no setter panics.
C10_SizeHintIntersectsBudget ==
    lim_hist.op = "size_hint" =>
        LET h == lim_hist.inner_hint
            n == remaining
            cap == IF h.upper.some THEN Min(n, h.upper.v) ELSE n
        IN  /\ ~lim_hint.panicked
            /\ lim_hint.upper = Upper(cap)
            /\ lim_hint.lower = IF h.lower >= n THEN n ELSE h.lower

\* after a forwarded frame, a budget left over caps an inner upper bound
C10_Witness ==
    /\ lim_hist.op = "size_hint" /\ lim_hist.forwarded > 0
    /\ lim_hist.inner_hint.lower < remaining
    /\ lim_hist.inner_hint.upper.some /\ lim_hist.inner_hint.upper.v > remaining
    /\ lim_hint.upper = Upper(remaining)

\* C11: the data frames a WithTrailers yields are the data frames its body
\* yielded, unchanged and in order; a trailers frame is the last frame it
\* yields, so every data frame comes before it and there is at most one; and
\* every poll_frame made after the trailers frame returns Ready(None).
C11_TrailersLastAndOnce ==
    /\ SelectSeq(wt_hist.frames, is_data) = wt_hist.body_data
    /\ \A i \in 1..Len(wt_hist.frames) :
            is_trailers(wt_hist.frames[i]) => i = Len(wt_hist.frames)
    /\ wt_hist.after_trailers => wt_out = ReadyNone

\* two data frames, then the trailers frame, then a poll after it
C11_Witness ==
    /\ Len(wt_hist.body_data) = 2
    /\ Len(wt_hist.frames) = 3
    /\ is_trailers(wt_hist.frames[3])
    /\ wt_hist.after_trailers
    /\ wt_out = ReadyNone

\* C12: with p the body's own trailers (absent when the body ended without
\* any) and t the future's result, None or Some(Ok(map)): a trailers frame the
\* adapter yields is t when p is absent, p when t is None, and otherwise p with
\* the values of every name of t replaced by those of t; when the adapter
\* answers Ready(None) it has yielded exactly that one frame, or no trailers
\* frame at all when p is absent and t is None.
C12_EmittedTrailers ==
    (wt_hist.body_done /\ wt_hist.t.kind \in {"None", "Trailers"}) =>
        LET p == wt_hist.p
            t == wt_hist.t
            expected ==
                IF t.kind = "None" THEN p
                ELSE IF ~p.some THEN Some(t.trailers)
                ELSE Some([n \in Names |-> IF t.trailers[n] # <<>>
                                            THEN t.trailers[n] ELSE p.map[n]])
            emitted == SelectSeq(wt_hist.frames, is_trailers)
        IN  /\ is_trailers(wt_out) => (expected.some /\ wt_out.trailers = expected.map)
            /\ wt_out = ReadyNone =>
                    emitted = IF expected.some THEN <<TrailersFrame(expected.map)>>
                              ELSE <<>>

\* the body's trailers and the future's trailers name different fields, and
\* the one frame yielded holds both
C12_Witness ==
    /\ wt_hist.body_done
    /\ wt_hist.p = Some(MapOf("foo", "bar"))
    /\ wt_hist.t = TrailersFrame(MapOf("baz", "qux"))
    /\ wt_out = ReadyNone
    /\ wt_hist.frames # <<>>
    /\ wt_hist.frames[Len(wt_hist.frames)].trailers
            = [EmptyMap EXCEPT !["foo"] = <<"bar">>, !["baz"] = <<"qux">>]

\* C13: body.with_trailers(A).with_trailers(B) over a body without trailers:
\* a trailers frame it yields is the last frame it yields, and it holds, for
\* every name B defines, B's values and, for every other name, A's values
\* (so every name of A and of B is in it); when the adapters answer
\* Ready(None) exactly one trailers frame has been yielded; every poll after
\* the trailers frame returns Ready(None).
C13_ChainedTrailersMerge ==
    LET merged == [n \in Names |-> IF ch_hist.b[n] # <<>> THEN ch_hist.b[n]
                                   ELSE ch_hist.a[n]]
        emitted == SelectSeq(ch_hist.frames, is_trailers)
    IN  /\ \A i \in 1..Len(ch_hist.frames) :
                is_trailers(ch_hist.frames[i]) =>
                    /\ i = Len(ch_hist.frames)
                    /\ ch_hist.frames[i].trailers = merged
                    /\ \A n \in Names : (ch_hist.a[n] # <<>> \/ ch_hist.b[n] # <<>>)
                                            => ch_hist.frames[i].trailers[n] # <<>>
        /\ ch_out = ReadyNone => Len(emitted) = 1
        /\ ch_hist.after_trailers => ch_out = ReadyNone

\* {foo: bar} then {baz: qux} over a body that yielded a data frame: the one
\* trailers frame holds both fields, and the poll after it returned Ready(None)
C13_Witness ==
    /\ ch_hist.a = MapOf("foo", "bar") /\ ch_hist.b = MapOf("baz", "qux")
    /\ Len(ch_hist.frames) = 2
    /\ is_data(ch_hist.frames[1])
    /\ ch_hist.frames[2]
            = TrailersFrame([EmptyMap EXCEPT !["foo"] = <<"bar">>, !["baz"] = <<"qux">>])
    /\ ch_hist.after_trailers
    /\ ch_out = ReadyNone

\* C14: the frames the body has handed out are a prefix of the frames
\* successfully sent, in the order they were sent, and while the body is alive
\* the frames sent are exactly those handed out followed by those still queued.
C14_ChannelFifo ==
    /\ Len(Received) <= Len(chan_sent)
    /\ Received = SubSeq(chan_sent, 1, Len(Received))
    /\ body_pc # "dropped" => chan_sent = Received \o rx_frame

\* three different frames were sent; the second one the body received was
\* taken from a queue of two
C14_Witness ==
    /\ Len(chan_sent) = 3
    /\ chan_sent[1] # chan_sent[2] /\ chan_sent[2] # chan_sent[3]
    /\ Len(Received) = 2
    /\ chan_seen.frames = <<chan_sent[2], chan_sent[3]>>
    /\ rx_frame = <<chan_sent[3]>>

\* C15: a send that finds the body dropped, when it is issued or when it is
\* woken from a full queue, returns Err(SendError); no frame is queued once the
\* body is dropped, and the sender does not panic.
C15_SendAfterDropFails ==
    /\ send_call.after_drop => send_out = "SendError"
    /\ body_pc = "dropped" => rx_frame = <<>>
    /\ sender_pc # "panicked"

\* a send was suspended on a full queue, the body was dropped, the send
\* returned Err(SendError)
C15_Witness ==
    /\ send_call.was_full /\ ~send_call.active /\ send_call.after_drop
    /\ send_out = "SendError"
    /\ sender_pc = "ready"

\* C16: never more than `buffer` frames are queued, and a send issued while
\* `buffer` frames were queued has queued its frame only after the body
\* received a frame.
C16_QueueBounded ==
    /\ Len(rx_frame) <= buffer
    /\ (send_call.was_full /\ ~send_call.active /\ ~send_call.after_drop)
            => Len(Received) > send_call.recvd
    /\ (send_call.was_full /\ send_call.active /\ body_pc # "dropped"
            /\ Len(Received) = send_call.recvd)
            => Len(rx_frame) = buffer

\* a send found the queue full, waited, and filled the queue again after the
\* body had taken one frame
C16_Witness ==
    /\ send_call.was_full /\ ~send_call.active /\ ~send_call.after_drop
    /\ send_out = "Ok"
    /\ Len(rx_frame) = buffer /\ buffer = 2
    /\ Len(Received) = send_call.recvd + 1

\* the bytes of the first k chunks a Throttle returned
RECURSIVE SumLen(_, _)
SumLen(returned, k) == IF k = 0 THEN 0 ELSE returned[k].len + SumLen(returned, k - 1)

\* the delay of a chunk, len / byte_rate, is a whole number of milliseconds
\* and no more than the cap on the credited time
PacedExactly(len, rate) ==
    /\ (len * rate.millis) % rate.bytes = 0
    /\ (len * rate.millis) \div rate.bytes <= ElapsedCap

C19_PendingOnlyWhenBodyPending ==
    (data_hist.polled /\ data_out = Pending) =>
        (data_hist.inner_out = Pending /\ data_hist.waker)

\* a script of data frames, then at most one trailers frame, then the end
DataThenTrailers(script) ==
    \A i \in 1..Len(script) :
        \/ is_data(script[i])
        \/ is_trailers(script[i]) /\ i = Len(script)

\* C20: the Collect future of a body that is never Pending and yields data
\* chunks, then at most one trailers frame, then ends, resolves on its first
\* poll to Ok; the bytes are the chunks in order and the trailers are those
\* of the trailers frame, or None without one.
C20_CollectOfReadyBody ==
    (DataThenTrailers(collect_script) /\ collect_out.res # "New") =>
        LET n == Len(collect_script)
            last == collect_script[n]
        IN  /\ collect_out.res = "Ok"
            /\ to_bytes(collect_out.collected) = ExpectedBytes(collect_script)
            /\ collect_out.collected.trailers =
                    IF n > 0 /\ is_trailers(last) THEN Some(last.trailers) ELSE None

\* two chunks of different bytes and a trailers frame were collected
C20_Witness ==
    /\ collect_script = <<DataFrame(<<0, 0>>), DataFrame(<<1>>),
                          TrailersFrame(MapOf("foo", "bar"))>>
    /\ collect_out.res = "Ok"
    /\ to_bytes(collect_out.collected) = <<0, 0, 1>>
    /\ collect_out.collected.trailers = Some(MapOf("foo", "bar"))

\* C21: when the body answers a poll with an error, the Collect or Buffered
\* future resolves on that very poll to Err with that error and with no
\* aggregate, whatever was collected before, and the error is the last answer
\* taken from the body: the body is not polled after it.
C21_ErrorResolvesAtOnce ==
    LET k == Len(collect_script) - Len(collect_body) IN
    /\ \A i \in 1..k :
        collect_script[i].kind = "Err" =>
            /\ i = k
            /\ collect_out = [res |-> "Err", collected |-> Collected_default,
                              err |-> collect_script[i].err]
    /\ collect_out.res = "Err" => (k >= 1 /\ collect_script[k].kind = "Err")

\* a chunk was collected, then the body failed with more of its script unplayed
C21_Witness ==
    /\ collect_kind = "Buffered"
    /\ Len(collect_script) = 3
    /\ Len(collect_body) = 1
    /\ is_data(collect_script[1]) /\ Len(collect_script[1].data) > 0
    /\ collect_script[2] = ReadyErr("again")
    /\ collect_out.res = "Err"
    /\ collect_out.err = "again"

\* the values of field n in the last of the trailers frames that hold it
RECURSIVE LastValues(_, _)
LastValues(frames, n) ==
    IF frames = <<>> THEN <<>>
    ELSE LET last == frames[Len(frames)]
             rest == SubSeq(frames, 1, Len(frames) - 1)
         IN  IF is_trailers(last) /\ last.trailers[n] # <<>> THEN last.trailers[n]
             ELSE LastValues(rest, n)

\* the values of field n in all the trailers frames, in the order of the frames
RECURSIVE AllValues(_, _)
AllValues(frames, n) ==
    IF frames = <<>> THEN <<>>
    ELSE (IF is_trailers(Head(frames)) THEN Head(frames).trailers[n] ELSE <<>>)
            \o AllValues(Tail(frames), n)

\* the future resolved Ok on a poll in which it took every frame it was given
CollectedInOnePoll ==
    /\ collect_out.res = "Ok"
    /\ \A i \in 1..(Len(collect_script) - Len(collect_body)) :
            collect_script[i].kind # "Pending"
    /\ \E i \in 1..Len(collect_yielded) : is_trailers(collect_yielded[i])

\* C22 as claimed: a field held by an earlier and by a later trailers frame
\* keeps the earlier values and has the later ones appended to them.
C22_LaterValuesAppended ==
    CollectedInOnePoll =>
        /\ collect_out.collected.trailers.some
        /\ \A n \in Names :
            collect_out.collected.trailers.map[n] = AllValues(collect_yielded, n)

\* C22, amended: of the trailers frames collected in one poll the first sets
\* the trailer map and each later one extends it; a field held by an earlier
\* and by a later frame has the values of the later frame only, and a field
\* held by one frame has the values of that frame.
C22_LaterValuesReplace ==
    CollectedInOnePoll =>
        /\ collect_out.collected.trailers.some
        /\ \A n \in Names :
            collect_out.collected.trailers.map[n] = LastValues(collect_yielded, n)

\* three trailers frames were collected: foo, then baz, then foo again
C22_Witness ==
    /\ collect_script = <<TrailersFrame(MapOf("foo", "bar")),
                          TrailersFrame(MapOf("baz", "qux")),
                          TrailersFrame(MapOf("foo", "qux"))>>
    /\ collect_out.res = "Ok"
    /\ collect_out.collected.trailers =
            Some([n \in Names |-> <<"qux">>])

\* C23: when the body's own trailers and the future's trailers are both there,
\* the trailers frame the adapter yields holds, for a field both define, the
\* future's values, and for a field one of them defines, the values of that
\* one; it holds no other field.
C23_FutureWinsConflict ==
    (/\ wt_hist.body_done
     /\ wt_hist.p.some
     /\ is_trailers(wt_hist.t)
     /\ is_trailers(wt_out)) =>
        \A n \in Names :
            LET mine == wt_hist.p.map[n]
                theirs == wt_hist.t.trailers[n]
            IN  /\ (mine # <<>> /\ theirs # <<>>) => wt_out.trailers[n] = theirs
                /\ (mine # <<>> /\ theirs = <<>>) => wt_out.trailers[n] = mine
                /\ (mine = <<>> /\ theirs # <<>>) => wt_out.trailers[n] = theirs
                /\ (mine = <<>> /\ theirs = <<>>) => wt_out.trailers[n] = <<>>

\* the body defined foo and baz, the future foo with another value: the frame
\* has the future's foo and the body's baz
C23_Witness ==
    /\ wt_hist.body_done
    /\ wt_hist.p = Some(BothFields)
    /\ wt_hist.t = TrailersFrame(MapOf("foo", "qux"))
    /\ wt_out = TrailersFrame([EmptyMap EXCEPT !["foo"] = <<"qux">>,
                                               !["baz"] = <<"qux">>])

\* the parts of C24 that are about the setters and exact()
SettersAndExact ==
    /\ sh_hist.op = "set_lower" =>
        /\ sh_out.panic <=> (sh_hist.before.upper.some
                                /\ sh_hist.arg > sh_hist.before.upper.v)
        /\ sh_out.panic => sh_hint = sh_hist.before
        /\ ~sh_out.panic => sh_hint = [sh_hist.before EXCEPT !.lower = sh_hist.arg]
    /\ sh_hist.op = "set_upper" =>
        /\ sh_out.panic <=> sh_hist.arg < sh_hist.before.lower
        /\ sh_out.panic => sh_hint = sh_hist.before
    /\ sh_hist.op = "exact" =>
        \A v \in U64 :
            sh_out.exact = Upper(v) <=>
                (sh_hint.lower = v /\ sh_hint.upper = Upper(v))

\* C24 as claimed: after any sequence of new, with_exact, set_lower, set_upper,
\* set_exact and + of well-formed hints the hint has lower <= upper whenever
\* the upper bound is set; a set_lower above the upper bound and a set_upper
\* below the lower bound panic and leave the hint as it was; exact() returns
\* Some(v) exactly when lower and upper are both v.
C24_LowerAtMostUpper ==
    /\ HintAlive => WellFormed(sh_hint)
    /\ SettersAndExact

\* the last sum, when the last call was a sum, stayed within a u64
NoWrapYet ==
    sh_hist.op = "add" =>
    /\ sh_hist.before.lower + sh_hist.rhs.lower <= U64Max
    /\ (sh_hist.before.upper.some /\ sh_hist.rhs.upper.some) =>
            sh_hist.before.upper.v + sh_hist.rhs.upper.v <= U64Max

\* the sum of a well-formed hint and a well-formed hint whose bounds add up
\* within a u64 is well-formed
WellFormedWithoutOverflow ==
    (HintAlive /\ NoWrapYet /\ WellFormed(sh_hist.before)) => WellFormed(sh_hint)

\* a + b is b + a whatever the build, and the sum of two exact hints, when
\* there is one, is exact
AddCommutes ==
    add_sums.done =>
        /\ add_sums.ab = add_sums.ba
        /\ (exact(add_args.a).some /\ exact(add_args.b).some /\ ~add_sums.ab.panicked)
                => exact(add_sums.ab).some

\* without overflow checks the sums wrap alike: + is associative
AddAssociatesWrapping ==
    (add_sums.done /\ add_build = "release") => add_sums.ab_c = add_sums.a_bc

\* the bounds of a, b and c add up within a u64
SumsFit ==
    LET top(h) == IF h.upper.some THEN h.upper.v ELSE 0 IN
    /\ add_args.a.lower + add_args.b.lower + add_args.c.lower <= U64Max
    /\ top(add_args.a) + top(add_args.b) + top(add_args.c) <= U64Max

\* the sum of a and b as the integers have it
PointwiseSum(a, b) ==
    Hint(a.lower + b.lower,
         IF a.upper.some /\ b.upper.some THEN Upper(a.upper.v + b.upper.v)
         ELSE NoUpper)

\* as long as no sum leaves u64, + is pointwise and associative
AddLawsWithoutOverflow ==
    (add_sums.done /\ SumsFit) =>
        /\ add_sums.ab = PointwiseSum(add_args.a, add_args.b)
        /\ add_sums.ab_c = add_sums.a_bc

\* C25 as claimed: for all hints a, b and c, a + b has the lower bound
\* a.lower + b.lower and the upper bound Some(a.upper + b.upper) when both are
\* set and None otherwise; a + b is b + a; (a + b) + c is a + (b + c); and the
\* sum of two exact hints is exact.
C25_AddPointwiseAndLawful ==
    add_sums.done =>
        /\ add_sums.ab = PointwiseSum(add_args.a, add_args.b)
        /\ add_sums.ab = add_sums.ba
        /\ add_sums.ab_c = add_sums.a_bc
        /\ (exact(add_args.a).some /\ exact(add_args.b).some)
                => exact(add_sums.ab).some

\* C26: after any pushes and advances remaining() is the count of the bytes
\* pushed less those advanced over, which is the sum of what the held
\* segments have left; the bytes held are the bytes pushed without the first
\* ones advanced over, in order; an advance(k) with k <= remaining() takes
\* remaining() down by k; no drained segment is held; and the push of an
\* exhausted segment leaves the list as it was.
C26_BufListAccounting ==
    LET unread == SubSeq(bl_hist.pushed, bl_hist.advanced + 1, Len(bl_hist.pushed)) IN
    /\ BufList_remaining(bl_bufs) = Len(bl_hist.pushed) - bl_hist.advanced
    /\ Concat(bl_bufs) = unread
    /\ \A i \in 1..Len(bl_bufs) : bl_bufs[i] # <<>>
    /\ (bl_hist.op = "advance" /\ ~bl_out.panicked) =>
            BufList_remaining(bl_bufs) = BufList_remaining(bl_hist.before) - bl_hist.arg
    /\ (bl_hist.op = "push" /\ bl_hist.seg = <<>>) => bl_bufs = bl_hist.before
    /\ (bl_hist.op = "push" /\ bl_hist.seg # <<>>) =>
            bl_bufs = Append(bl_hist.before, bl_hist.seg)

\* three segments were pushed, and an advance drained the first of them and
\* a part of the second
C26_Witness ==
    /\ bl_hist.pushed = <<0, 1, 1, 0, 1>>
    /\ bl_hist.op = "advance"
    /\ bl_hist.before = <<<<0, 1>>, <<1, 0>>, <<1>>>>
    /\ bl_hist.arg = 3
    /\ bl_bufs = <<<<0>>, <<1>>>>

\* C27: flip turns Left(x) into Right(x) and Right(y) into Left(y), the value
\* held being the same, and two flips give the value back: after an odd
\* number of flips the value is the start with the other case, after an even
\* number it is the start.
C27_FlipIsInvolution ==
    LET start == either_hist.start IN
    IF either_hist.flips % 2 = 0 THEN either_value = start
    ELSE /\ either_value.val = start.val
         /\ start.tag = "Left" => either_value = Right(start.val)
         /\ start.tag = "Right" => either_value = Left(start.val)

\* Right(2) was flipped twice
C27_Witness ==
    /\ either_hist.start = Right(2)
    /\ either_hist.flips = 2
    /\ either_value = Right(2)

\* C28: a poll_frame of a Fuse that holds its inner body drops the body
\* exactly when the body answered with an error, with Ready(None), or with a
\* frame after which its is_end_stream() is true; after a Pending, and after
\* a frame that leaves is_end_stream() false, the Fuse still holds the body.
C28_DropsExactlyAtEnd ==
    (fuse_hist.polled /\ fuse_hist.held /\ ~fuse_hist.dropped) =>
        LET ended == \/ fuse_out.kind \in {"Err", "None"}
                     \/ IsFrame(fuse_out) /\ Mock_is_end_stream(fuse_hist.left)
        IN  /\ ended <=> ~fuse_inner.some
            /\ ~ended => fuse_inner = SomeBody(fuse_hist.left)

\* the body's last frame: it reports end-of-stream after it and is dropped
C28_Witness ==
    /\ fuse_hist.held
    /\ ~fuse_hist.dropped
    /\ is_data(fuse_out)
    /\ fuse_hist.left = <<>>
    /\ fuse_inner = NoBody

\* C29: in every step of a Limited, whichever of poll_data, poll_trailers,
\* is_end_stream and size_hint is called, `remaining` does not grow; it
\* changes only in a poll_data in which the inner body yielded a data frame;
\* and the hint a size_hint returns has an upper bound, which is at most
\* `remaining`.
C29_BudgetIsRatchet ==
    [][/\ remaining' <= remaining
       /\ remaining' # remaining =>
            (lim_hist'.op = "poll_data" /\ is_data(lim_hist'.inner))
       /\ lim_hist'.op = "size_hint" =>
            (lim_hint'.upper.some /\ lim_hint'.upper.v <= remaining')]_vars

\* a part of the budget is spent, and a size_hint over an inner hint with a
\* larger upper bound reports the rest of the budget as the upper bound
C29_Witness ==
    /\ lim_hist.op = "size_hint"
    /\ lim_hist.forwarded > 0
    /\ 0 < remaining /\ remaining < lim_hist.limit
    /\ lim_hist.inner_hint.upper.some
    /\ lim_hist.inner_hint.upper.v > remaining
    /\ lim_hint.upper = Upper(remaining)

\* C30: an error of the inner body's poll_data or poll_trailers comes out of
\* the Limited as LengthLimitError::Other with that error, not as
\* LengthLimitExceeded; poll_trailers returns any other answer of the inner
\* body as it is; and after each of these calls `remaining` is what it was.
C30_InnerErrorsAreOther ==
    /\ (lim_hist.op = "poll_data" /\ lim_hist.inner.kind = "Err") =>
        /\ lim_out = Other(lim_hist.inner.err)
        /\ lim_out # LengthLimitExceeded
        /\ remaining = lim_hist.before
    /\ lim_hist.op = "poll_trailers" =>
        /\ lim_hist.inner.kind = "Err" =>
            (lim_out = Other(lim_hist.inner.err) /\ lim_out # LengthLimitExceeded)
        /\ lim_hist.inner.kind # "Err" => lim_out = lim_hist.inner
        /\ remaining = lim_hist.before

\* with a part of the budget spent, poll_trailers of the inner body failed
C30_Witness ==
    /\ lim_hist.op = "poll_trailers"
    /\ lim_hist.forwarded > 0
    /\ lim_hist.inner = ReadyErr("again")
    /\ lim_out = Other("again")
    /\ remaining = lim_hist.limit - lim_hist.forwarded

\* C31: when the body under a Fuse, a WithTrailers or a Throttle answers a
\* poll with an error, or the trailers future of a WithTrailers resolves to an
\* error, the adapter returns that error from the call in which it got it,
\* not Ready(None), Pending or a frame.
C31_ErrorsPassThrough ==
    /\ adapter = "Fuse" =>
        ((fuse_hist.polled /\ fuse_hist.held /\ ~fuse_hist.dropped
            /\ fuse_hist.inner_out.kind = "Err") => fuse_out = fuse_hist.inner_out)
    /\ adapter = "WithTrailers" =>
        /\ (wt_hist.last_body.polled /\ wt_hist.last_body.out.kind = "Err")
                => wt_out = wt_hist.last_body.out
        /\ (wt_hist.last_fut.polled /\ wt_hist.last_fut.out.kind = "Err")
                => wt_out = wt_hist.last_fut.out
    /\ adapter = "Throttle" =>
        ((th_hist.call.polled /\ th_hist.call.inner_out.kind = "Err")
                => th_out = th_hist.call.inner_out)

\* a Fuse got an error from its body after a data frame
C31_Witness ==
    /\ adapter = "Fuse"
    /\ fuse_hist.held
    /\ fuse_hist.count_before = 1
    /\ fuse_hist.inner_out = ReadyErr("oh no")
    /\ fuse_out = ReadyErr("oh no")

\* C32: a poll_data that finds the timer of the Waiting state expired credits
\* the cursor with the time since the last resume, or with 2000 ms when more
\* has passed, times byte_rate (the cursor is kept times byte_rate.millis), so
\* never with more than 2000 ms of bytes; it goes to Ready with the time of
\* the call, and polls the inner body before it returns.
C32_CreditIsClamped ==
    LET c == th_hist.call IN
    (c.op = "poll_data" /\ c.before.state.tag = "Waiting"
        /\ c.entered.state.tag = "Ready") =>
        LET elapsed == c.entered.state.time - c.before.state.time IN
        /\ c.entered.state.time >= c.before.state.deadline
        /\ c.entered.cursor.x =
                c.before.cursor.x + Min(elapsed, 2000) * byte_rate.bytes
        /\ c.entered.cursor.x - c.before.cursor.x <= 2000 * byte_rate.bytes
        /\ c.polled
        /\ th_out = c.inner_out

\* the consumer came back more than 2000 ms after the last resume and was
\* credited with 2000 ms
C32_Witness ==
    LET c == th_hist.call IN
    /\ c.op = "poll_data"
    /\ c.before.state.tag = "Waiting"
    /\ c.entered.state.tag = "Ready"
    /\ c.entered.state.time - c.before.state.time > 2000
    /\ c.entered.cursor.x - c.before.cursor.x = 2000 * byte_rate.bytes
    /\ c.polled

\* C33: the n-th data chunk a Throttle returns, n >= 2, comes no earlier than
\* floor((b1 + ... + b(n-1)) / byte_rate) milliseconds after the first poll,
\* whatever the chunks and however the consumer polls.
C33_NeverFasterThanRate ==
    \A n \in 2..Len(th_hist.returned) :
        th_hist.returned[n].at - th_hist.start >=
            (SumLen(th_hist.returned, n - 1) * byte_rate.millis) \div byte_rate.bytes

\* C34: Sender::abort does not panic: the error channel holds nothing while
\* the Sender is there to call abort, abort being its only writer, so that
\* try_send never answers Full; an abort that finds the body dropped stores
\* nothing and returns.
C34_AbortNeverPanics ==
    /\ sender_pc # "panicked"
    /\ Len(rx_error) <= 1
    /\ sender_pc \in {"ready", "sending"} => (rx_error = <<>> /\ ~chan_aborted)
    /\ (sender_pc = "dropping" /\ ~chan_aborted) =>
            (body_pc = "dropped" /\ rx_error = <<>>)

\* abort ran after the body was dropped, and before it an abort-free Sender
\* had sent a frame
C34_Witness ==
    /\ sender_pc = "dropping" /\ body_pc = "dropped"
    /\ ~chan_aborted /\ rx_error = <<>>
    /\ chan_sent # <<>>

\* C35: Limited::size_hint, given an inner hint with lower <= upper, fails no
\* assertion of a setter and returns a hint with lower <= upper, with an upper
\* bound that is at most the remaining budget, and with a lower bound that is
\* at most the lower bound of the inner body.
C35_SizeHintWellFormed ==
    lim_hist.op = "size_hint" =>
        /\ ~lim_hint.panicked
        /\ WellFormed(lim_hint)
        /\ lim_hint.upper.some /\ lim_hint.upper.v <= remaining
        /\ lim_hint.lower <= lim_hist.inner_hint.lower

\* the inner body promises more than the budget that is left after a frame:
\* the hint is exactly the budget
C35_Witness ==
    /\ lim_hist.op = "size_hint" /\ lim_hist.forwarded > 0
    /\ remaining > 0
    /\ lim_hist.inner_hint.lower > remaining
    /\ lim_hint = Hint(remaining, Upper(remaining))

\* C36: a poll_frame of a WithTrailers that has returned Ready(None) before
\* returns Ready(None) and polls neither the body nor the trailers future.
C36_QuietAfterEnd ==
    wt_hist.after_none =>
        /\ wt_out = ReadyNone
        /\ ~wt_hist.last_body.polled
        /\ ~wt_hist.last_fut.polled

\* C37: up to and including the first Ready(None) or error a Fuse returns,
\* it returns what its body returns when polled without the Fuse, call by
\* call, also when the body is a WithTrailers.
C37_FuseTransparent ==
    \A i \in 1..Len(fw_hist.fused) :
        (\A j \in 1..(i - 1) : fw_hist.fused[j].kind \notin {"None", "Err"})
            => fw_hist.fused[i] = fw_hist.direct[i]

\* a step in which the inner body yielded the data chunk at the head of its
\* script
InnerYieldsChunk ==
    /\ th_inner # <<>> /\ is_data(Head(th_inner))
    /\ th_inner' = Tail(th_inner)

\* C38: at a positive, finite byte_rate, with timers that fire and a consumer
\* that polls again after each wake-up, every chunk the inner body yields is
\* returned by the poll_data that took it, as it is and behind the chunks
\* returned before it, and in the end the inner body is exhausted and a
\* poll_data has returned its end-of-stream.
C38_EveryChunkComesOut ==
    /\ [][InnerYieldsChunk =>
            /\ th_out' = Head(th_inner)
            /\ th_hist'.returned =
                    Append(th_hist.returned,
                           [len |-> Len(Head(th_inner).data), at |-> now])]_vars
    /\ [][th_hist'.returned # th_hist.returned => InnerYieldsChunk]_vars
    /\ <>(/\ th_inner = <<>>
          /\ th_hist.call.op = "poll_data" /\ th_out = ReadyNone)

\* three chunks came out, timers ran in between, and the end-of-stream
\* followed
C38_Witness ==
    /\ th_inner = <<>> /\ th_hist.call.op = "poll_data" /\ th_out = ReadyNone
    /\ Len(th_hist.returned) = 3
    /\ th_hist.returned[3].at > th_hist.returned[2].at
    /\ th_hist.returned[2].at > th_hist.start

\* C39: when the Sender is dropped without an abort, the body never yields
\* an error, a poll_frame returns Ready(None) only once every frame that
\* was sent has been yielded, and after a Ready(None) every later
\* poll_frame returns Ready(None) too.
C39_CleanClose ==
    /\ [](~chan_aborted =>
            /\ \A k \in 1..Len(chan_recv) : chan_recv[k].kind # "Err"
            /\ (body_pc = "ready" /\ chan_out = ReadyNone) =>
                    (~tx_frame /\ Received = chan_sent))
    /\ [][(~chan_aborted /\ body_pc = "ready" /\ chan_out = ReadyNone
                /\ body_pc' = "ready") => chan_out' = ReadyNone]_vars

\* C40: a call of is_end_stream, poll_data, poll_trailers or size_hint on a
\* Pin<P>, a &mut T or a Box<T> returns what the same call returns on the
\* body behind it, in the state the body is in.
C40_PointersTransparent ==
    wr_out.op # "new" => wr_out.via = wr_out.direct

====
